---- MODULE Spec2Model ----
(***************************************************************************)
(* Model of the smash.gg harvester of ranking-scraper                       *)
(* (ranking_scraper/smashgg/scraper.py): the request wrapper with its       *)
(* exponential back-off, fetch_events (pull_event_data) and populate_event  *)
(* working on a SQLAlchemy session over the persisted store.                *)
(*                                                                         *)
(* Durations are counted in tenths of a second (1.5 s = 15), so that the    *)
(* doubling of the wait time is exact integer arithmetic.                   *)
(***************************************************************************)
EXTENDS Integers, Sequences, FiniteSets, TLC

VARIABLES
    req,        \* the last call of the request layer (its inputs and outcome)
    pc,         \* "idle", or the top-level scraping call in progress
    call,       \* the locals of the scraping call in progress
    session,    \* the store as the session sees it (committed + flushed/pending)
    committed,  \* the committed store
    last,       \* the outcome of the last finished scraping call
    ncalls,     \* the number of scraping calls started
    fn          \* the last call of a helper function (its inputs and outcome)

vars == <<req, pc, call, session, committed, last, ncalls, fn>>

----------------------------------------------------------------------------
(* Optional values: Python's None against a present integer.               *)
Null == [null |-> TRUE, v |-> 0]
Some(n) == [null |-> FALSE, v |-> n]

Min(a, b) == IF a <= b THEN a ELSE b
Max(a, b) == IF a >= b THEN a ELSE b

----------------------------------------------------------------------------
(* The request layer.                                                      *)

HTTP_TOO_MANY_REQUESTS == 429
DEFAULT_MAX_RETRIES == 5
DEFAULT_INITIAL_WAIT == 15
DEFAULT_MAX_WAIT == 600

\* Bound on the max_retries argument drawn for direct calls of the wrapper.
MaxRetriesArg == 3

\* The remote client as seen by one request: it answers the first n429
\* attempts with HTTP 429 and every later attempt with `final` (200 is a
\* response, anything else an HTTPError with that code).
ClientCodes == {200, 500, 400}
Clients(n) == [n429 : 0..n, final : ClientCodes]

ClientExecute(client, attempt_nr) ==
    IF attempt_nr < client.n429 THEN HTTP_TOO_MANY_REQUESTS ELSE client.final

\* A variant of the handler that retries after every failure.
RetryAgainAlways(code, attempt_nr, max_retries) == code # 200

\* The exception handler of the loop: retry only after a 429 that is not the
\* last allowed attempt.
RetryAgain(code, attempt_nr, max_retries) ==
    code = HTTP_TOO_MANY_REQUESTS /\ ~(attempt_nr >= max_retries)

\* time.sleep(min(wait_time, max_wait_time))
Backoff(wait_time, max_wait_time) == Min(wait_time, max_wait_time)

\* for attempt_nr in range(max_retries + 1): the body of one iteration and
\* the rest of the loop. The result records the attempts made and the sleeps.
RECURSIVE ExecuteLoop(_, _, _, _, _, _)
ExecuteLoop(client, attempt_nr, wait_time, max_retries, max_wait_time, sleeps) ==
    IF attempt_nr > max_retries
    THEN [status |-> "fellthrough", code |-> 0,
          attempts |-> attempt_nr, sleeps |-> sleeps]
    ELSE LET code == ClientExecute(client, attempt_nr) IN
         IF code = 200
         THEN [status |-> "return", code |-> code,
               attempts |-> attempt_nr + 1, sleeps |-> sleeps]
         ELSE IF ~RetryAgain(code, attempt_nr, max_retries)
         THEN [status |-> "raise", code |-> code,
               attempts |-> attempt_nr + 1, sleeps |-> sleeps]
         ELSE ExecuteLoop(client, attempt_nr + 1, wait_time * 2, max_retries,
                          max_wait_time,
                          Append(sleeps, Backoff(wait_time * 2, max_wait_time)))

\* SmashGGScraper._execute_request
ExecuteRequest(client, max_retries, initial_wait_time, max_wait_time) ==
    ExecuteLoop(client, 0, initial_wait_time, Max(max_retries, 0),
                max_wait_time, <<>>)

SubmitIgnoresMissingData(client, has_data, include_metadata) ==
    LET r == ExecuteRequest(client, DEFAULT_MAX_RETRIES, DEFAULT_INITIAL_WAIT,
                            DEFAULT_MAX_WAIT) IN
    IF r.status # "return" THEN "HTTPError" ELSE "ok"

\* SmashGGScraper.submit_request: the outcome for a payload that has or has
\* not a top-level "data" key. "ok" returns the data, "raw" the payload as it
\* is (include_metadata), "HTTPError" and "KeyError" are raised.
SubmitRequest(client, has_data, include_metadata) ==
    LET r == ExecuteRequest(client, DEFAULT_MAX_RETRIES, DEFAULT_INITIAL_WAIT,
                            DEFAULT_MAX_WAIT) IN
    IF r.status # "return" THEN "HTTPError"
    ELSE IF include_metadata THEN "raw"
    ELSE IF has_data THEN "ok"
    ELSE "KeyError"

\* No helper function has been called.
FnIdle == [op |-> "none"]

ReqIdle ==
    [op |-> "none", client |-> [n429 |-> 0, final |-> 200], max_retries |-> 0,
     initial_wait_time |-> 0, max_wait_time |-> 0, has_data |-> TRUE,
     include_metadata |-> FALSE, status |-> "none", code |-> 0, attempts |-> 0,
     sleeps |-> <<>>, outcome |-> "none"]

\* A direct call of _execute_request with arguments of the caller's choice.
ExecuteRequestCall ==
    \E client \in Clients(MaxRetriesArg + 2), max_retries \in -1..MaxRetriesArg,
       initial_wait_time \in {DEFAULT_INITIAL_WAIT, 10},
       max_wait_time \in {DEFAULT_MAX_WAIT, 50} :
        LET r == ExecuteRequest(client, max_retries, initial_wait_time,
                                max_wait_time) IN
        /\ req' = [op |-> "execute", client |-> client,
                   max_retries |-> max_retries,
                   initial_wait_time |-> initial_wait_time,
                   max_wait_time |-> max_wait_time, has_data |-> TRUE,
                   include_metadata |-> FALSE, status |-> r.status,
                   code |-> r.code, attempts |-> r.attempts,
                   sleeps |-> r.sleeps, outcome |-> "none"]
        /\ UNCHANGED <<fn, pc, call, session, committed, last, ncalls>>

\* A call of submit_request (the wrapper with its default arguments).
SubmitRequestCall ==
    \E client \in Clients(DEFAULT_MAX_RETRIES + 1), has_data \in BOOLEAN,
       include_metadata \in BOOLEAN :
        LET r == ExecuteRequest(client, DEFAULT_MAX_RETRIES,
                                DEFAULT_INITIAL_WAIT, DEFAULT_MAX_WAIT) IN
        /\ req' = [op |-> "submit", client |-> client,
                   max_retries |-> DEFAULT_MAX_RETRIES,
                   initial_wait_time |-> DEFAULT_INITIAL_WAIT,
                   max_wait_time |-> DEFAULT_MAX_WAIT, has_data |-> has_data,
                   include_metadata |-> include_metadata,
                   status |-> r.status, code |-> r.code,
                   attempts |-> r.attempts, sleeps |-> r.sleeps,
                   outcome |-> SubmitRequest(client, has_data,
                                             include_metadata)]
        /\ UNCHANGED <<fn, pc, call, session, committed, last, ncalls>>

----------------------------------------------------------------------------
(* The data of the harvester.                                              *)

GAME_SGG_ID == 1386
MIN_ENTRANTS == 10

\* model.py: EventType, EventFormat, EventState
TYPE_UNKNOWN == 0
TYPE_SINGLES == 1
TYPE_DOUBLES == 2
FORMAT_UNKNOWN == 0
FORMAT_ELIMINATION == 1
FORMAT_LADDER == 2
STATE_UNVERIFIED == 0

\* Bounds of the model.
MaxPages == 2       \* totalPages of a paging summary
MaxSetPages == 1    \* totalPages of the sets of one phase
MaxCalls == 2       \* top-level scraping calls in one behaviour

\* What a request of a scraping call may meet: an immediate answer, an
\* answer after one 429, a fatal HTTP error, 429 until the retries are
\* exhausted, and an answer whose payload has no "data" key.
HarvestResponses ==
    {[client |-> [n429 |-> 0, final |-> 200], has_data |-> TRUE],
     [client |-> [n429 |-> 1, final |-> 200], has_data |-> TRUE],
     [client |-> [n429 |-> 0, final |-> 500], has_data |-> TRUE],
     [client |-> [n429 |-> DEFAULT_MAX_RETRIES + 1, final |-> 200],
      has_data |-> TRUE],
     [client |-> [n429 |-> 0, final |-> 200], has_data |-> FALSE]}

\* An event record of a tournament node.
EventRecord(id, state, isOnline, videogame, numEntrants, type) ==
    [id |-> id, state |-> state, isOnline |-> isOnline, videogame |-> videogame,
     numEntrants |-> numEntrants, type |-> type]

ValidEvent(id, type) ==
    EventRecord(id, "COMPLETED", FALSE, GAME_SGG_ID, Some(MIN_ENTRANTS), type)

\* The tournament nodes the remote service may return: tournament 1 with a
\* singles event, a doubles event and an event of a type code without a
\* mapping, and tournament 2 with an event id listed twice and an event of
\* too few entrants.
TournamentRecs ==
    {[id |-> 1, events |-> <<ValidEvent(1, 1), ValidEvent(2, 5),
                             ValidEvent(3, 3)>>],
     [id |-> 2, events |-> <<ValidEvent(1, 1), ValidEvent(1, 1),
          EventRecord(3, "COMPLETED", FALSE, GAME_SGG_ID,
                      Some(MIN_ENTRANTS - 1), 1)>>]}

\* The nodes of one result page: one tournament per page.
TournamentPages == {<<t>> : t \in TournamentRecs}

\* The countries argument; the empty list stands for "no filter".
CountryLists ==
    {<<>>, <<"BE">>, <<"BE", "NL">>, <<"BE", "BE">>}

RECURSIVE Concat(_)
Concat(seqs) == IF seqs = <<>> THEN <<>> ELSE Head(seqs) \o Concat(Tail(seqs))

\* A variant that accepts an event with any entrant count.
ValidateIgnoresEntrants(evt_data) ==
    /\ evt_data.state = "COMPLETED"
    /\ ~evt_data.isOnline
    /\ evt_data.videogame = GAME_SGG_ID

\* _validate_event_data
ValidateEventData(evt_data) ==
    IF evt_data.state # "COMPLETED" THEN FALSE
    ELSE IF evt_data.isOnline THEN FALSE
    ELSE IF evt_data.videogame # GAME_SGG_ID THEN FALSE
    ELSE IF evt_data.numEntrants.null \/ evt_data.numEntrants.v = 0
            \/ evt_data.numEntrants.v < MIN_ENTRANTS THEN FALSE
    ELSE TRUE

\* A variant of the mapping that knows the singles code only.
EventTypeCodeSinglesOnly(type) ==
    IF type = 1 THEN TYPE_SINGLES ELSE TYPE_UNKNOWN

\* EVENT_TYPE_ENUM_MAP.get(type, EventType.UNKNOWN.value)
EventTypeCode(type) ==
    IF type = 1 THEN TYPE_SINGLES ELSE IF type = 5 THEN TYPE_DOUBLES
    ELSE TYPE_UNKNOWN

\* The Event built for one accepted event record.
NewEvent(tournament_dict, evt_data) ==
    [sgg_tournament_id |-> tournament_dict.id, sgg_event_id |-> evt_data.id,
     type_code |-> EventTypeCode(evt_data.type),
     format_code |-> FORMAT_UNKNOWN, state_code |-> STATE_UNVERIFIED]

\* SmashGGScraper._create_events_from_tournament_dict
RECURSIVE CreateEventsLoop(_, _)
CreateEventsLoop(tournament_dict, evts) ==
    IF evts = <<>> THEN <<>>
    ELSE LET evt_data == Head(evts)
             rest == CreateEventsLoop(tournament_dict, Tail(evts)) IN
         IF evt_data.state # "COMPLETED" THEN rest
         ELSE IF evt_data.isOnline THEN rest
         ELSE IF evt_data.videogame # GAME_SGG_ID THEN rest
         ELSE IF ~ValidateEventData(evt_data) THEN rest
         ELSE <<NewEvent(tournament_dict, evt_data)>> \o rest

CreateEventsFromTournamentDict(tournament_dict) ==
    CreateEventsLoop(tournament_dict, tournament_dict.events)

\* The sanity check of _get_events: a tournament id retrieved more than once.
HasDuplicateTournament(tournament_dicts) ==
    Cardinality({tournament_dicts[i].id : i \in DOMAIN tournament_dicts})
        # Len(tournament_dicts)

GetEventsKeepsDuplicates(tournament_dicts) ==
    Concat([i \in DOMAIN tournament_dicts |->
               CreateEventsFromTournamentDict(tournament_dicts[i])])

\* SmashGGScraper._get_events, after the pages are retrieved.
GetEventsResult(tournament_dicts) ==
    IF HasDuplicateTournament(tournament_dicts) THEN <<>>
    ELSE Concat([i \in DOMAIN tournament_dicts |->
                    CreateEventsFromTournamentDict(tournament_dicts[i])])

EventKey(e) == <<e.sgg_tournament_id, e.sgg_event_id>>

FilterKnownByEventIdOnly(events, stored) ==
    LET known == {<<stored[i].sgg_event_id, stored[i].sgg_tournament_id>> :
                      i \in DOMAIN stored}
        IsNew(evt) == EventKey(evt) \notin known
    IN SelectSeq(events, IsNew)

\* SmashGGScraper._filter_out_known_events against the events of the session.
FilterOutKnownEvents(events, stored) ==
    LET tournament_ids == {events[i].sgg_tournament_id : i \in DOMAIN events}
        known_events == {i \in DOMAIN stored :
                             stored[i].sgg_tournament_id \in tournament_ids}
        known_events_ids == {EventKey(stored[i]) : i \in known_events}
        IsNew(evt) == EventKey(evt) \notin known_events_ids
    IN SelectSeq(events, IsNew)

----------------------------------------------------------------------------
(* The scraping calls: state.                                              *)

EmptyStore == [events |-> <<>>, players |-> <<>>, sets |-> <<>>]

\* A store as an earlier harvest of tournament 1 leaves it, made when the
\* tournament had its singles and its doubles event: no sets, no players.
SeededStore ==
    [events |-> <<[sgg_tournament_id |-> 1, sgg_event_id |-> 1,
                   type_code |-> TYPE_SINGLES, format_code |-> FORMAT_UNKNOWN,
                   state_code |-> STATE_UNVERIFIED],
                  [sgg_tournament_id |-> 1, sgg_event_id |-> 2,
                   type_code |-> TYPE_DOUBLES, format_code |-> FORMAT_UNKNOWN,
                   state_code |-> STATE_UNVERIFIED]>>,
     players |-> <<>>, sets |-> <<>>]

\* A store as an earlier harvest of the tournaments 1 and 3 and the populate
\* of the singles event of tournament 1 leave it: that event is classified
\* and has one set between a verified and an anonymous player; tournament 3
\* has a singles event without sets and an event of unknown type.
PopulatedStore ==
    [events |-> <<[sgg_tournament_id |-> 1, sgg_event_id |-> 1,
                   type_code |-> TYPE_SINGLES,
                   format_code |-> FORMAT_ELIMINATION,
                   state_code |-> STATE_UNVERIFIED],
                  [sgg_tournament_id |-> 1, sgg_event_id |-> 2,
                   type_code |-> TYPE_DOUBLES, format_code |-> FORMAT_UNKNOWN,
                   state_code |-> STATE_UNVERIFIED],
                  [sgg_tournament_id |-> 3, sgg_event_id |-> 1,
                   type_code |-> TYPE_SINGLES, format_code |-> FORMAT_UNKNOWN,
                   state_code |-> STATE_UNVERIFIED],
                  [sgg_tournament_id |-> 3, sgg_event_id |-> 2,
                   type_code |-> TYPE_UNKNOWN, format_code |-> FORMAT_UNKNOWN,
                   state_code |-> STATE_UNVERIFIED]>>,
     players |-> <<[sgg_id |-> Some(1), name |-> "a"],
                   [sgg_id |-> Null, name |-> "b"]>>,
     sets |-> <<[sgg_id |-> 1, order |-> 0, event |-> 1,
                 winning_player |-> 1, winning_score |-> Some(2),
                 winning_player_is_verified |-> TRUE,
                 losing_player |-> 2, losing_score |-> Some(0),
                 losing_player_is_verified |-> FALSE]>>]

CallIdle ==
    [op |-> "none", pre |-> EmptyStore, countries |-> <<>>, ci |-> 0,
     stage |-> "none", page_nr |-> 0, totalPages |-> 0,
     tournament_dicts |-> <<>>, found_events |-> <<>>, trace |-> <<>>,
     expect |-> <<>>, replay |-> FALSE,
     event |-> 0, phases_data |-> <<>>, pi |-> 0, all_sets_data |-> <<>>]

LastNone ==
    [op |-> "none", status |-> "none", error |-> "none", pre |-> EmptyStore,
     countries |-> <<>>, trace |-> <<>>, replay |-> FALSE, result |-> <<>>,
     event |-> 0, unvisited |-> 0, dq |-> 0, sets_data |-> <<>>,
     phases |-> <<>>]

\* A variant that catches the failure of one filter and goes on with the
\* next filter of the same call.
RaiseSkipsFilter(error) ==
    IF call.op = "pull" /\ call.ci < Len(call.countries)
    THEN /\ call' = [call EXCEPT !.ci = @ + 1, !.stage = "paging",
                                 !.page_nr = 0, !.totalPages = 0,
                                 !.tournament_dicts = <<>>,
                                 !.trace = Append(@, <<>>),
                                 !.replay = FALSE, !.expect = <<>>]
         /\ last' = [LastNone EXCEPT !.op = call.op, !.status = "error",
                                     !.error = error, !.pre = call.pre,
                                     !.countries = call.countries]
         /\ UNCHANGED <<fn, req, pc, session, committed, ncalls>>
    ELSE /\ pc' = "idle"
         /\ call' = CallIdle
         /\ last' = [LastNone EXCEPT !.op = call.op, !.status = "error",
                                     !.error = error, !.pre = call.pre,
                                     !.event = call.event,
                                     !.countries = call.countries]
         /\ UNCHANGED <<fn, req, session, committed, ncalls>>

\* An exception leaves the call: nothing is committed and nothing is rolled
\* back, the session keeps what the call has staged.
Raise(error) ==
    /\ pc' = "idle"
    /\ call' = CallIdle
    /\ last' = [LastNone EXCEPT !.op = call.op, !.status = "error",
                                !.error = error, !.pre = call.pre,
                                !.event = call.event,
                                !.countries = call.countries,
                                !.unvisited = Len(call.countries) - call.ci]
    /\ UNCHANGED <<fn, req, session, committed, ncalls>>

----------------------------------------------------------------------------
(* fetch_events: SmashGGScraper.pull_event_data                            *)

\* countries = countries or [None]
CountriesOrNone(countries) == IF countries = <<>> THEN <<"None">> ELSE countries

\* Lines 134-141: filter out the known events, add the new ones, commit.
PullFinish(found_events, trace, replay) ==
    LET new_events == FilterOutKnownEvents(found_events, session.events)
        s2 == [session EXCEPT !.events = @ \o new_events] IN
    /\ session' = s2
    /\ committed' = s2
    /\ pc' = "idle"
    /\ call' = CallIdle
    /\ last' = [LastNone EXCEPT !.op = "pull", !.status = "ok",
                                !.pre = call.pre,
                                !.countries = call.countries,
                                !.trace = trace,
                                !.replay = replay,
                                !.result = new_events]
    /\ UNCHANGED <<fn, req, ncalls>>

\* Whether the records retrieved so far for the current filter are what the
\* previous successful call with the same arguments retrieved at this point.
IsPrefix(s, t) == Len(s) <= Len(t) /\ \A i \in DOMAIN s : s[i] = t[i]

StillReplay(tournament_dicts, whole) ==
    /\ call.replay
    /\ call.ci <= Len(call.expect)
    /\ IF whole THEN tournament_dicts = call.expect[call.ci]
       ELSE IsPrefix(tournament_dicts, call.expect[call.ci])

\* The end of _get_events for the current filter, and what follows it in
\* pull_event_data: the next filter, or the end of the call.
EndOfFilter(tournament_dicts) ==
    LET found == call.found_events \o GetEventsResult(tournament_dicts)
        trace == Append(call.trace, tournament_dicts) IN
    IF call.ci = Len(call.countries)
    THEN PullFinish(found, trace, StillReplay(tournament_dicts, TRUE))
    ELSE /\ call' = [call EXCEPT !.ci = @ + 1, !.stage = "paging",
                                 !.page_nr = 0, !.totalPages = 0,
                                 !.tournament_dicts = <<>>,
                                 !.found_events = found, !.trace = trace,
                                 !.replay = StillReplay(tournament_dicts, TRUE),
                                 !.expect = IF StillReplay(tournament_dicts, TRUE)
                                            THEN @ ELSE <<>>]
         /\ UNCHANGED <<fn, req, pc, session, committed, last, ncalls>>

\* The call starts: the arguments are bound and the first filter begins.
PullEventData ==
    /\ pc = "idle"
    /\ ncalls < MaxCalls
    /\ \E countries \in CountryLists :
        LET cs == CountriesOrNone(countries)
            again == last.op = "pull" /\ last.status = "ok"
                     /\ last.countries = cs IN
        /\ call' = [CallIdle EXCEPT !.op = "pull", !.pre = committed,
                                    !.countries = cs, !.ci = 1,
                                    !.stage = "paging",
                                    !.replay = again,
                                    !.expect = IF again THEN last.trace
                                               ELSE <<>>]
    /\ pc' = "pull"
    /\ last' = LastNone
    /\ ncalls' = ncalls + 1
    /\ UNCHANGED <<fn, req, session, committed>>

\* A variant of the summary request after which the pages are counted from 0.
TournamentsPagingFromZero ==
    /\ pc = "pull" /\ call.stage = "paging"
    /\ \E resp \in HarvestResponses :
        LET out == SubmitRequest(resp.client, resp.has_data, FALSE) IN
        IF out # "ok" THEN Raise(out)
        ELSE \E totalPages \in 0..MaxPages :
            IF totalPages = 0 THEN EndOfFilter(<<>>)
            ELSE /\ call' = [call EXCEPT !.stage = "page", !.page_nr = 0,
                                         !.totalPages = totalPages]
                 /\ UNCHANGED <<fn, req, pc, session, committed, last, ncalls>>

\* The page-count summary request of the current filter (line 188).
TournamentsPaging ==
    /\ pc = "pull" /\ call.stage = "paging"
    /\ \E resp \in HarvestResponses :
        LET out == SubmitRequest(resp.client, resp.has_data, FALSE) IN
        IF out # "ok" THEN Raise(out)
        ELSE \E totalPages \in 0..MaxPages :
            IF totalPages = 0 THEN EndOfFilter(<<>>)
            ELSE /\ call' = [call EXCEPT !.stage = "page", !.page_nr = 1,
                                         !.totalPages = totalPages]
                 /\ UNCHANGED <<fn, req, pc, session, committed, last, ncalls>>

\* The request of result page page_nr of the current filter (line 197).
TournamentsPage ==
    /\ pc = "pull" /\ call.stage = "page"
    /\ \E resp \in HarvestResponses :
        LET out == SubmitRequest(resp.client, resp.has_data, FALSE) IN
        IF out # "ok" THEN Raise(out)
        ELSE \E nodes \in TournamentPages :
            LET tds == call.tournament_dicts \o nodes IN
            IF call.page_nr = call.totalPages THEN EndOfFilter(tds)
            ELSE /\ call' = [call EXCEPT !.page_nr = @ + 1,
                                         !.tournament_dicts = tds,
                                         !.replay = StillReplay(tds, FALSE),
                                         !.expect = IF StillReplay(tds, FALSE)
                                                    THEN @ ELSE <<>>]
                 /\ UNCHANGED <<fn, req, pc, session, committed, last, ncalls>>

----------------------------------------------------------------------------
(* populate_event: the data retrieved and the pure helpers.                *)

ELIMINATION_FORMATS ==
    {"SINGLE_ELIMINATION", "DOUBLE_ELIMINATION", "ROUND_ROBIN", "SWISS"}
LADDER_FORMATS == {"MATCHMAKING"}
UNKNOWN_FORMATS == {"EXHIBITION", "RACE", "CUSTOM_SCHEDULE", "ELIMINATION_ROUND"}

\* The phase lists the remote service may return for an event.
PhaseLists ==
    {<<>>,
     <<[id |-> 1, bracketType |-> "SINGLE_ELIMINATION"]>>,
     <<[id |-> 1, bracketType |-> "ROUND_ROBIN"],
       [id |-> 2, bracketType |-> "DOUBLE_ELIMINATION"]>>,
     <<[id |-> 3, bracketType |-> "MATCHMAKING"]>>}

\* A variant that classifies by the first phase only.
FindFormatByFirstPhase(event_phases) ==
    IF event_phases = <<>> THEN FORMAT_ELIMINATION
    ELSE IF event_phases[1].bracketType \in ELIMINATION_FORMATS
    THEN FORMAT_ELIMINATION
    ELSE IF event_phases[1].bracketType \in LADDER_FORMATS
    THEN FORMAT_LADDER
    ELSE FORMAT_UNKNOWN

\* A variant that leaves an event without phases unclassified.
FindFormatOfSomePhases(event_phases) ==
    LET bracket_types == {event_phases[i].bracketType : i \in DOMAIN event_phases}
    IN IF bracket_types = {}
       THEN FORMAT_UNKNOWN
       ELSE IF \A b \in bracket_types : b \in ELIMINATION_FORMATS
       THEN FORMAT_ELIMINATION
       ELSE IF \A b \in bracket_types : b \in LADDER_FORMATS
       THEN FORMAT_LADDER
       ELSE FORMAT_UNKNOWN

\* _find_event_format
FindEventFormat(event_phases) ==
    LET bracket_types == {event_phases[i].bracketType : i \in DOMAIN event_phases}
    IN IF \A b \in bracket_types : b \in ELIMINATION_FORMATS
       THEN FORMAT_ELIMINATION
       ELSE IF \A b \in bracket_types : b \in LADDER_FORMATS
       THEN FORMAT_LADDER
       ELSE IF \A b \in bracket_types : b \in UNKNOWN_FORMATS
       THEN FORMAT_UNKNOWN
       ELSE FORMAT_UNKNOWN

\* participants[0] of an entrant: gamerTag, verified, and user.id (Null when
\* user is null or carries no id).
Participant(gamerTag, verified, user) ==
    [gamerTag |-> gamerTag, verified |-> verified, user |-> user]

\* One slot of a set node: standing.placement, standing.stats.score.value and
\* the first participant of the entrant.
Slot(placement, score, participant) ==
    [placement |-> placement, score |-> score, participant |-> participant]

PlayerA == Participant("a", TRUE, Some(1))
PlayerB == Participant("b", FALSE, Null)

\* The set nodes the remote service may return: two played sets (the second
\* one lists its winner last and has no start time), a set with a negative
\* score in its second slot, a set with a null score, a malformed record
\* that has one slot only, and a played set whose slots report the same
\* placement and whose start time equals that of the first set.
SetRecs ==
    {[id |-> 1, startedAt |-> Some(2),
      slots |-> <<Slot(1, Some(2), PlayerA), Slot(2, Some(0), PlayerB)>>],
     [id |-> 2, startedAt |-> Null,
      slots |-> <<Slot(2, Some(1), PlayerB), Slot(1, Some(3), PlayerA)>>],
     [id |-> 3, startedAt |-> Some(1),
      slots |-> <<Slot(1, Some(0), PlayerA), Slot(2, Some(-1), PlayerB)>>],
     [id |-> 4, startedAt |-> Some(1),
      slots |-> <<Slot(1, Null, PlayerB), Slot(2, Some(2), PlayerA)>>],
     [id |-> 5, startedAt |-> Some(3),
      slots |-> <<Slot(1, Some(1), PlayerA)>>],
     [id |-> 6, startedAt |-> Some(2),
      slots |-> <<Slot(1, Some(2), PlayerB), Slot(1, Some(1), PlayerA)>>]}

\* The nodes of one page of sets: one set per page.
SetPages == {<<r>> : r \in SetRecs}

DqFirstSlotOnly(set_data) ==
    LET v == set_data.slots[1].score IN v.null \/ v.v < 0

\* The loop of _set_data_contains_dq over the slots.
RECURSIVE DqLoop(_)
DqLoop(slots) ==
    IF slots = <<>> THEN FALSE
    ELSE IF Head(slots).score.null THEN TRUE
    ELSE IF Head(slots).score.v < 0 THEN TRUE
    ELSE DqLoop(Tail(slots))

\* _set_data_contains_dq
SetDataContainsDq(set_data) == DqLoop(set_data.slots)

\* key=lambda sd: sd['startedAt'] or 0
StartKey(sd) == IF sd.startedAt.null \/ sd.startedAt.v = 0 THEN 0
                ELSE sd.startedAt.v

\* A variant that leaves the records in the order of retrieval.
SortKeepsRetrievalOrder(s) == s

\* sorted(..., key=StartKey): a stable sort, as insertion of each element
\* after the elements whose key is not greater.
RECURSIVE InsertByStart(_, _)
InsertByStart(x, sorted) ==
    IF sorted = <<>> THEN <<x>>
    ELSE IF StartKey(Head(sorted)) <= StartKey(x)
    THEN <<Head(sorted)>> \o InsertByStart(x, Tail(sorted))
    ELSE <<x>> \o sorted

RECURSIVE SortedByStart(_)
SortedByStart(s) ==
    IF s = <<>> THEN <<>>
    ELSE InsertByStart(s[Len(s)], SortedByStart(SubSeq(s, 1, Len(s) - 1)))

\* Lines 273-279 of _get_phase_sets_data: drop the DQ sets, sort by start.
FilterAndSortSets(all_sets_data) ==
    LET NotDq(sd) == ~SetDataContainsDq(sd)
    IN SortedByStart(SelectSeq(all_sets_data, NotDq))

\* The player stored last under sgg_id: known_players is a dict built from
\* the query result in order, so a later row replaces an earlier one.
LastPlayerWith(players, id) ==
    LET hits == {i \in DOMAIN players :
                    ~players[i].sgg_id.null /\ players[i].sgg_id.v = id}
    IN CHOOSE i \in hits : \A j \in hits : j <= i

\* A variant that never looks a participant up and creates a player each
\* time.
GetPlayerAlwaysCreates(participant_data, players, anonymous_players_map) ==
    [player |-> Len(players) + 1,
     players |-> Append(players,
                        [sgg_id |-> participant_data.user,
                         name |-> participant_data.gamerTag]),
     anon |-> anonymous_players_map]

\* A variant that looks an anonymous participant up among the stored players
\* before it creates one.
GetPlayerReusesStored(participant_data, players, anonymous_players_map) ==
    LET user == participant_data.user
        tag == participant_data.gamerTag
        same == {i \in DOMAIN players :
                    players[i].sgg_id = user /\ players[i].name = tag}
    IN IF same # {}
       THEN [player |-> CHOOSE i \in same : \A j \in same : i <= j,
             players |-> players, anon |-> anonymous_players_map]
       ELSE [player |-> Len(players) + 1,
             players |-> Append(players, [sgg_id |-> user, name |-> tag]),
             anon |-> anonymous_players_map]

\* SmashGGScraper._get_player_for_participant on the players the session
\* sees and the anonymous players of this call (tag -> player). The result is
\* the player, the players after a possible session.add, and the map.
GetPlayerForParticipant(participant_data, players, anonymous_players_map) ==
    LET user == participant_data.user
        known == {players[i].sgg_id.v : i \in
                     {j \in DOMAIN players :
                         ~players[j].sgg_id.null /\ players[j].sgg_id.v # 0}}
        tag == participant_data.gamerTag
    IN IF ~user.null /\ user.v # 0
       THEN IF user.v \in known
            THEN [player |-> LastPlayerWith(players, user.v),
                  players |-> players, anon |-> anonymous_players_map]
            ELSE [player |-> Len(players) + 1,
                  players |-> Append(players,
                                     [sgg_id |-> Some(user.v), name |-> tag]),
                  anon |-> anonymous_players_map]
       ELSE IF tag \notin DOMAIN anonymous_players_map
            THEN [player |-> Len(players) + 1,
                  players |-> Append(players, [sgg_id |-> Null, name |-> tag]),
                  anon |-> [t \in DOMAIN anonymous_players_map \cup {tag} |->
                               IF t = tag THEN Len(players) + 1
                               ELSE anonymous_players_map[t]]]
            ELSE [player |-> anonymous_players_map[tag],
                  players |-> players, anon |-> anonymous_players_map]

\* A variant that takes the slots in the order of the record.
SlotsAsListed(slots) == slots

\* sorted(set_data['slots'], key=placement) for the two slots of a set.
SlotsByPlacement(slots) ==
    IF slots[2].placement < slots[1].placement
    THEN <<slots[2], slots[1]>> ELSE slots

\* The loop of _create_sets_from_set_dicts over new_set_dicts from position
\* idx + 1 on. players are the players of the session, new_sets the sets built
\* so far. A record that has not exactly two slots raises (the unpacking of
\* line 300) and leaves the loop with what is staged so far.
RECURSIVE CreateSetsLoop(_, _, _, _, _, _)
CreateSetsLoop(event, new_set_dicts, idx, players, anon, new_sets) ==
    IF idx >= Len(new_set_dicts)
    THEN [error |-> "none", players |-> players, sets |-> new_sets]
    ELSE LET set_data == new_set_dicts[idx + 1] IN
         IF Len(set_data.slots) # 2
         THEN [error |-> "ValueError", players |-> players, sets |-> new_sets]
         ELSE LET sl == SlotsByPlacement(set_data.slots)
                  winning_slot == sl[1]
                  losing_slot == sl[2]
                  w == GetPlayerForParticipant(winning_slot.participant,
                                               players, anon)
                  l == GetPlayerForParticipant(losing_slot.participant,
                                               w.players, w.anon)
                  new_set ==
                      [sgg_id |-> set_data.id, order |-> idx, event |-> event,
                       winning_player |-> w.player,
                       winning_score |-> winning_slot.score,
                       winning_player_is_verified |->
                           winning_slot.participant.verified,
                       losing_player |-> l.player,
                       losing_score |-> losing_slot.score,
                       losing_player_is_verified |->
                           losing_slot.participant.verified]
              IN CreateSetsLoop(event, new_set_dicts, idx + 1, l.players,
                                l.anon, Append(new_sets, new_set))

\* Lines 292-293: the set records whose id is not stored yet.
NewSetDicts(set_dicts, stored_sets) ==
    LET known_set_ids == {stored_sets[i].sgg_id : i \in DOMAIN stored_sets}
        IsNew(set_data) == set_data.id \notin known_set_ids
    IN SelectSeq(set_dicts, IsNew)

\* SmashGGScraper._create_sets_from_set_dicts against the session's view.
CreateSetsFromSetDicts(event, set_dicts, store) ==
    CreateSetsLoop(event, NewSetDicts(set_dicts, store.sets), 0,
                   store.players, <<>>, <<>>)

\* A variant that takes no event for populated.
IsPopulatedNever(event, store) == FALSE

\* Event.is_populated
IsPopulated(event, store) ==
    \E i \in DOMAIN store.sets : store.sets[i].event = event

----------------------------------------------------------------------------
(* populate_event: SmashGGScraper.populate_event                           *)

PopulateCommitsBeforeSets(store, all_sets_data) ==
    LET set_dicts == FilterAndSortSets(all_sets_data)
        r == CreateSetsFromSetDicts(call.event, set_dicts, store)
        s2 == [store EXCEPT !.players = r.players, !.sets = @ \o r.sets] IN
    /\ session' = s2
    /\ committed' = s2
    /\ pc' = "idle"
    /\ call' = CallIdle
    /\ last' = [LastNone EXCEPT !.op = "populate",
                                !.status = IF r.error = "none" THEN "ok"
                                           ELSE "error",
                                !.error = r.error,
                                !.pre = call.pre, !.event = call.event,
                                !.result = IF r.error = "none" THEN r.sets
                                           ELSE <<>>,
                                !.dq = Len(all_sets_data) - Len(set_dicts),
                                !.sets_data = all_sets_data]
    /\ UNCHANGED <<fn, req, ncalls>>

\* The end of _get_phase_sets_data and lines 163-166: the sets are created
\* (new players are added to the session and the new sets are attached to the
\* event on the way), added and committed. An exception on the way leaves
\* what is staged in the session, uncommitted.
PopulateFinish(store, all_sets_data) ==
    LET set_dicts == FilterAndSortSets(all_sets_data)
        r == CreateSetsFromSetDicts(call.event, set_dicts, store)
        s2 == [store EXCEPT !.players = r.players, !.sets = @ \o r.sets] IN
    /\ session' = s2
    /\ committed' = IF r.error = "none" THEN s2 ELSE committed
    /\ pc' = "idle"
    /\ call' = CallIdle
    /\ last' = [LastNone EXCEPT !.op = "populate",
                                !.status = IF r.error = "none" THEN "ok"
                                           ELSE "error",
                                !.error = r.error,
                                !.pre = call.pre, !.event = call.event,
                                !.result = IF r.error = "none" THEN r.sets
                                           ELSE <<>>,
                                !.dq = Len(all_sets_data) - Len(set_dicts),
                                !.sets_data = all_sets_data,
                                !.phases = call.phases_data]
    /\ UNCHANGED <<fn, req, ncalls>>

\* The end of the pages of the current phase: the next phase, or the end.
EndOfPhase(all_sets_data) ==
    IF call.pi = Len(call.phases_data)
    THEN PopulateFinish(session, all_sets_data)
    ELSE /\ call' = [call EXCEPT !.pi = @ + 1, !.stage = "setspaging",
                                 !.page_nr = 0, !.totalPages = 0,
                                 !.all_sets_data = all_sets_data]
         /\ UNCHANGED <<fn, req, pc, session, committed, last, ncalls>>

\* A variant of the start of the call without the test of the event type.
PopulateEventAnyType ==
    /\ pc = "idle"
    /\ ncalls < MaxCalls
    /\ \E event \in DOMAIN session.events :
        IF IsPopulated(event, session)
        THEN /\ last' = [LastNone EXCEPT !.op = "populate", !.status = "ok",
                                         !.pre = committed, !.event = event]
             /\ UNCHANGED <<pc, call>>
        ELSE /\ call' = [CallIdle EXCEPT !.op = "populate", !.pre = committed,
                                         !.event = event, !.stage = "phases"]
             /\ pc' = "populate"
             /\ last' = LastNone
    /\ ncalls' = ncalls + 1
    /\ UNCHANGED <<fn, req, session, committed>>

\* The call starts (lines 151-158): an event that has sets, or that is not a
\* singles event, returns an empty list at once.
PopulateEvent ==
    /\ pc = "idle"
    /\ ncalls < MaxCalls
    /\ \E event \in DOMAIN session.events :
        IF \/ IsPopulated(event, session)
           \/ session.events[event].type_code = TYPE_DOUBLES
           \/ session.events[event].type_code = TYPE_UNKNOWN
        THEN /\ last' = [LastNone EXCEPT !.op = "populate", !.status = "ok",
                                         !.pre = committed, !.event = event]
             /\ UNCHANGED <<pc, call>>
        ELSE /\ call' = [CallIdle EXCEPT !.op = "populate", !.pre = committed,
                                         !.event = event, !.stage = "phases"]
             /\ pc' = "populate"
             /\ last' = LastNone
    /\ ncalls' = ncalls + 1
    /\ UNCHANGED <<fn, req, session, committed>>

\* The phases request (line 160) and the update of the format (line 161).
EventPhases ==
    /\ pc = "populate" /\ call.stage = "phases"
    /\ \E resp \in HarvestResponses :
        LET out == SubmitRequest(resp.client, resp.has_data, FALSE) IN
        IF out # "ok" THEN Raise(out)
        ELSE \E phases_data \in PhaseLists :
            LET s2 == [session EXCEPT !.events[call.event].format_code =
                                          FindEventFormat(phases_data)] IN
            IF phases_data = <<>>
            THEN PopulateFinish(s2, <<>>)
            ELSE /\ session' = s2
                 /\ call' = [call EXCEPT !.phases_data = phases_data,
                                         !.pi = 1, !.stage = "setspaging"]
                 /\ UNCHANGED <<fn, req, pc, committed, last, ncalls>>

\* The page-count request of the sets of the current phase (line 265).
PhaseSetsPaging ==
    /\ pc = "populate" /\ call.stage = "setspaging"
    /\ \E resp \in HarvestResponses :
        LET out == SubmitRequest(resp.client, resp.has_data, FALSE) IN
        IF out # "ok" THEN Raise(out)
        ELSE \E page_count \in 0..MaxSetPages :
            IF page_count = 0 THEN EndOfPhase(call.all_sets_data)
            ELSE /\ call' = [call EXCEPT !.stage = "setspage", !.page_nr = 1,
                                         !.totalPages = page_count]
                 /\ UNCHANGED <<fn, req, pc, session, committed, last, ncalls>>

\* The request of page page_nr of the sets of the current phase (line 269).
PhaseSetsPage ==
    /\ pc = "populate" /\ call.stage = "setspage"
    /\ \E resp \in HarvestResponses :
        LET out == SubmitRequest(resp.client, resp.has_data, FALSE) IN
        IF out # "ok" THEN Raise(out)
        ELSE \E nodes \in SetPages :
            LET all == call.all_sets_data \o nodes IN
            IF call.page_nr = call.totalPages THEN EndOfPhase(all)
            ELSE /\ call' = [call EXCEPT !.page_nr = @ + 1,
                                         !.all_sets_data = all]
                 /\ UNCHANGED <<fn, req, pc, session, committed, last, ncalls>>

----------------------------------------------------------------------------
Init ==
    /\ req = ReqIdle
    /\ pc = "idle"
    /\ call = CallIdle
    /\ session \in {EmptyStore, SeededStore, PopulatedStore}
    /\ committed = session
    /\ last = LastNone
    /\ ncalls = 0
    /\ fn = FnIdle

PullNext ==
    \/ PullEventData
    \/ TournamentsPaging
    \/ TournamentsPage

PopulateNext ==
    \/ PopulateEvent
    \/ EventPhases
    \/ PhaseSetsPaging
    \/ PhaseSetsPage

Next ==
    \/ PullEventData
    \/ TournamentsPaging
    \/ TournamentsPage
    \/ PopulateEvent
    \/ EventPhases
    \/ PhaseSetsPaging
    \/ PhaseSetsPage

Spec == Init /\ [][Next]_vars

SpecPull == Init /\ [][PullNext]_vars

SpecPopulate == Init /\ [][PopulateNext]_vars

RequestNext ==
    \/ ExecuteRequestCall
    \/ SubmitRequestCall

SpecRequest == Init /\ [][RequestNext]_vars

----------------------------------------------------------------------------
(* Direct calls of the helper functions of the harvester, one per          *)
(* behaviour, on inputs of the caller's choice.                            *)

MaxEventsPerNode == 2   \* event records of one tournament node
MaxPhases == 2          \* phases of one event

\* The sequences over S of length 1 to n.
SeqsUpTo(S, n) == UNION {[1..k -> S] : k \in 1..n}

\* Event records in every combination of the fields that the filters read
\* (singles), and an eligible record of each other type code.
HelperEventRecs ==
    {EventRecord(1, st, on, vg, ne, 1) :
        <<st, on, vg, ne>> \in {"COMPLETED", "ACTIVE"} \X BOOLEAN
                               \X {GAME_SGG_ID, 1}
                               \X {Null, Some(0), Some(MIN_ENTRANTS - 1),
                                   Some(MIN_ENTRANTS), Some(MIN_ENTRANTS + 1)}}
    \cup {ValidEvent(1, 5), ValidEvent(1, 3)}

\* Tournament nodes: the events are numbered by position.
HelperTournaments ==
    {[id |-> 1, events |-> [i \in DOMAIN evts |-> [evts[i] EXCEPT !.id = i]]] :
        evts \in {<<>>} \cup SeqsUpTo(HelperEventRecs, MaxEventsPerNode)}

\* The bracketType labels: the ones the classifier knows and one it does not.
BracketTypes ==
    ELIMINATION_FORMATS \cup LADDER_FORMATS \cup UNKNOWN_FORMATS \cup {"OTHER"}

HelperPhaseLists ==
    {[i \in DOMAIN labels |-> [id |-> i, bracketType |-> labels[i]]] :
        labels \in {<<>>} \cup SeqsUpTo(BracketTypes, MaxPhases)}

\* _create_events_from_tournament_dict(tournament_dict, game)
CreateEventsCall ==
    /\ fn.op = "none"
    /\ \E tournament_dict \in HelperTournaments :
        fn' = [op |-> "create_events", arg |-> tournament_dict,
               ret |-> CreateEventsFromTournamentDict(tournament_dict)]
    /\ UNCHANGED <<req, pc, call, session, committed, last, ncalls>>

\* The tail of _get_events on the records of two one-event tournaments.
GetEventsCall ==
    /\ fn.op = "none"
    /\ \E e1, e2 \in HelperEventRecs, id2 \in {1, 2} :
        LET tournament_dicts == <<[id |-> 1, events |-> <<e1>>],
                                  [id |-> id2, events |-> <<e2>>]>> IN
        fn' = [op |-> "get_events", arg |-> tournament_dicts,
               ret |-> GetEventsResult(tournament_dicts)]
    /\ UNCHANGED <<req, pc, call, session, committed, last, ncalls>>

\* _find_event_format(event_phases)
FindEventFormatCall ==
    /\ fn.op = "none"
    /\ \E event_phases \in HelperPhaseLists :
        fn' = [op |-> "find_event_format", arg |-> event_phases,
               ret |-> FindEventFormat(event_phases)]
    /\ UNCHANGED <<req, pc, call, session, committed, last, ncalls>>

HelperNext ==
    \/ CreateEventsCall
    \/ GetEventsCall
    \/ FindEventFormatCall

SpecHelpers == Init /\ [][HelperNext]_vars

----------------------------------------------------------------------------
(* The rating algorithm (rankingalgorithms/glicko.py). Rating objects live  *)
(* in a heap, a sequence indexed by address, and a ratings dictionary maps  *)
(* players to addresses, so that sharing and in-place changes are visible.  *)
(* Factors are counted in tenths (1.0 = 10); a deviation is kept as the     *)
(* integer below the float that the code computes.                          *)

BASE_R == 1500
BASE_RD == 350
MINIMUM_RD == 30
C == 100

MaxPlayers == 2     \* players of a ratings dictionary

\* math.sqrt, to the integer below (the arguments stay below
\* (BASE_RD + C) squared).
ISqrt(n) ==
    CHOOSE k \in 0..(BASE_RD + C) : k * k <= n /\ n < (k + 1) * (k + 1)

\* Rating.clone
Clone(rating) == [r |-> rating.r, rd |-> rating.rd]

\* Rating.update_deviation on the object at address addr: the error, or the
\* heap after the assignment to self.rd.
RatingUpdateDeviation(heap, addr, factor) ==
    IF ~(0 <= factor /\ factor <= 10)
    THEN [error |-> "ValueError", heap |-> heap]
    ELSE LET inc == (C * factor) \div 10
             rd1 == Min(ISqrt(heap[addr].rd * heap[addr].rd + inc * inc),
                        BASE_RD)
             rd2 == Max(rd1, MINIMUM_RD)
         IN [error |-> "none", heap |-> [heap EXCEPT ![addr].rd = rd2]]

\* Line 119: every Rating is cloned into a new object; the players keep
\* their order.
RECURSIVE CloneAll(_, _, _)
CloneAll(heap, player_ratings, todo) ==
    IF todo = {}
    THEN [heap |-> heap, ratings |-> [p \in {} |-> 0]]
    ELSE LET p == CHOOSE x \in todo : \A y \in todo : y <= x
             rest == CloneAll(heap, player_ratings, todo \ {p})
             addr == Len(rest.heap) + 1
         IN [heap |-> Append(rest.heap, Clone(heap[player_ratings[p]])),
             ratings |-> [q \in DOMAIN rest.ratings \cup {p} |->
                             IF q = p THEN addr ELSE rest.ratings[q]]]

\* A variant of the loop that takes a player without a factor for active.
RECURSIVE DeviationLoopDefaultActive(_, _, _, _)
DeviationLoopDefaultActive(heap, ratings, deviation_factors, todo) ==
    IF todo = {}
    THEN [status |-> "return", heap |-> heap]
    ELSE LET player == CHOOSE x \in todo : \A y \in todo : x <= y
             factor == IF player \in DOMAIN deviation_factors
                       THEN deviation_factors[player] ELSE 0
             u == RatingUpdateDeviation(heap, ratings[player], factor)
         IN IF u.error # "none"
            THEN [status |-> u.error, heap |-> u.heap]
            ELSE DeviationLoopDefaultActive(u.heap, ratings,
                                            deviation_factors,
                                            todo \ {player})

\* Lines 120-122: the loop over the cloned ratings, in the order of the
\* dictionary. An error leaves the loop.
RECURSIVE DeviationLoop(_, _, _, _)
DeviationLoop(heap, ratings, deviation_factors, todo) ==
    IF todo = {}
    THEN [status |-> "return", heap |-> heap]
    ELSE LET player == CHOOSE x \in todo : \A y \in todo : x <= y
             factor == IF player \in DOMAIN deviation_factors
                       THEN deviation_factors[player] ELSE 10
             u == RatingUpdateDeviation(heap, ratings[player], factor)
         IN IF u.error # "none"
            THEN [status |-> u.error, heap |-> u.heap]
            ELSE DeviationLoop(u.heap, ratings, deviation_factors,
                               todo \ {player})

\* update_deviation(player_ratings, deviation_factors): the status, the heap
\* after the call, and the dictionary returned (empty when it raises).
UpdateDeviation(heap, player_ratings, deviation_factors) ==
    LET c == CloneAll(heap, player_ratings, DOMAIN player_ratings)
        l == DeviationLoop(c.heap, c.ratings, deviation_factors,
                           DOMAIN c.ratings)
    IN [status |-> l.status, heap |-> l.heap,
        result |-> IF l.status = "return" THEN c.ratings
                   ELSE [p \in {} |-> 0]]

\* The ratings a dictionary may hold, the factors a caller may pass.
RatingValues == {[r |-> BASE_R, rd |-> rd] : rd \in {MINIMUM_RD, 200, BASE_RD}}
Factors == {-1, 0, 5, 10, 11}

\* The partial functions from S to T.
PartialFunctions(S, T) == UNION {[D -> T] : D \in SUBSET S}

\* The heap and the dictionary that hold the given ratings, one object per
\* player, in the order of the players.
HeapOf(values) ==
    LET n == Cardinality(DOMAIN values)
        Rank(p) == Cardinality({q \in DOMAIN values : q <= p})
    IN [heap |-> [a \in 1..n |->
                     values[CHOOSE p \in DOMAIN values : Rank(p) = a]],
        ratings |-> [p \in DOMAIN values |-> Rank(p)]]

\* A call of update_deviation: the rated players are among 1..MaxPlayers,
\* the factors may also name a player that is not rated.
UpdateDeviationCall ==
    /\ fn.op = "none"
    /\ \E values \in PartialFunctions(1..MaxPlayers, RatingValues),
          deviation_factors \in PartialFunctions(1..MaxPlayers + 1, Factors) :
        LET h == HeapOf(values) IN
        fn' = [op |-> "update_deviation",
               arg |-> [heap |-> h.heap, player_ratings |-> h.ratings,
                        deviation_factors |-> deviation_factors],
               ret |-> UpdateDeviation(h.heap, h.ratings, deviation_factors)]
    /\ UNCHANGED <<req, pc, call, session, committed, last, ncalls>>

----------------------------------------------------------------------------
(* The rating update (update_ranking) and expected_outcome. The arithmetic  *)
(* of the floats is carried out on integers, to the resolution stated with  *)
(* each quantity; the two sums of the update are rounded as float additions  *)
(* are, to a fixed number of significant digits.                            *)

\* Fractions are counted in thousandths; math.log(10) / 400 in millionths.
Unit == 1000
Q == 5756

\* A float keeps a fixed number of significant digits: here, decimal ones.
SigDigits == 4

Abs(n) == IF n < 0 THEN 0 - n ELSE n

RECURSIVE TenPow(_)
TenPow(n) == IF n <= 0 THEN 1 ELSE 10 * TenPow(n - 1)

\* The least magnitude that does not fit into the digits of a float.
FloatLimit == TenPow(SigDigits)

\* The weight of the last digit that a float of magnitude a keeps.
RECURSIVE LastDigit(_, _)
LastDigit(a, u) ==
    IF a \div u < FloatLimit THEN u ELSE LastDigit(a, 10 * u)

\* The rounding of the result of a float operation: to the nearest float,
\* a tie to the even one.
Float(n) ==
    LET u == LastDigit(Abs(n), 1)
        q == Abs(n) \div u
        rest == Abs(n) % u
        up == 2 * rest > u \/ (2 * rest = u /\ q % 2 = 1)
        m == (IF up THEN q + 1 ELSE q) * u
    IN IF n < 0 THEN 0 - m ELSE m

\* math.sqrt, to the integer below, by bisection.
RECURSIVE SqrtBetween(_, _, _)
SqrtBetween(n, lo, hi) ==
    IF lo >= hi THEN lo
    ELSE LET mid == (lo + hi + 1) \div 2
         IN IF mid * mid <= n THEN SqrtBetween(n, mid, hi)
            ELSE SqrtBetween(n, lo, mid - 1)

Sqrt(n) == SqrtBetween(n, 0, 2 * Unit)

\* The exponential series, for y >= 0 in thousandths.
RECURSIVE ExpSeries(_, _, _)
ExpSeries(y, term, k) ==
    IF term = 0 THEN 0
    ELSE term + ExpSeries(y, (term * y) \div (Unit * k), k + 1)

\* math.pow(10, x) and 10 ** x for x in thousandths: ln 10 is 400 * Q.
PowerOfTen(x) ==
    LET y == (Abs(x) * ((400 * Q) \div Unit)) \div Unit
        p == ExpSeries(y, Unit, 1)
    IN IF x >= 0 THEN p ELSE (Unit * Unit) \div p

\* _g(rd), in thousandths: 3 * Q ** 2 / math.pi ** 2 is 1007 / 10 ** 8.
G(rd) ==
    Sqrt(Unit * ((Unit * 100000) \div (100000 + (rd * rd * 1007) \div Unit)))

\* A variant that weighs the difference by the deviation of r1 alone.
ExpectedOutcomeOwnDeviation(r1, r2) ==
    LET exponent == (-1 * G(r1.rd) * (r1.r - r2.r)) \div 400
        divider == Unit + PowerOfTen(exponent)
    IN (Unit * Unit) \div divider

\* calculate_expected_outcome(r1, r2), in thousandths.
CalculateExpectedOutcome(r1, r2) ==
    LET exponent ==
            (-1 * G(Sqrt(r1.rd * r1.rd + r2.rd * r2.rd)) * (r1.r - r2.r))
                \div 400
        divider == Unit + PowerOfTen(exponent)
    IN (Unit * Unit) \div divider

\* A variant of the factory that starts a new entrant at the minimum
\* deviation.
FactoryOfMinimumDeviation == [r |-> BASE_R, rd |-> MINIMUM_RD]

\* _rating_factory_gen with the default base_r and base_rd: the Rating of a
\* new entrant.
FactoryFunction == [r |-> BASE_R, rd |-> BASE_RD]

\* old_ratings[p] of the defaultdict: a missing key gets a new Rating of the
\* factory, which is stored under the key.
OldRatings(st, p) ==
    IF p \in DOMAIN st.old_ratings THEN st
    ELSE [st EXCEPT
             !.heap = Append(st.heap, FactoryFunction),
             !.old_ratings = [q \in DOMAIN st.old_ratings \cup {p} |->
                                 IF q = p THEN Len(st.heap) + 1
                                 ELSE st.old_ratings[q]]]

\* Lines 174-178 and 181-185: the expected score against the opponent and
\* the two sums, each addition rounded as a float addition is. rating_sum is
\* kept in millionths, d_squared in units of 10 ** -9.
AddSet(st, p_old, opp_old, score) ==
    LET g == G(st.heap[opp_old].rd)
        e == (Unit * Unit) \div
                 (Unit + PowerOfTen((-1 * g * (st.heap[p_old].r
                                                - st.heap[opp_old].r))
                                        \div 400))
    IN [st EXCEPT
           !.rating_sum = Float(st.rating_sum + Float(g * (score - e))),
           !.d_squared = Float(st.d_squared
                               + Float(((g * g) \div Unit) * e * (Unit - e)))]

\* A variant of the loops that reads the rating of the opponent from
\* new_ratings, where the players rated so far have their new Rating.
RECURSIVE SetsLoopSequential(_, _, _, _, _, _)
SetsLoopSequential(st, sets, p, p_old, won, idx) ==
    IF idx > Len(sets) THEN st
    ELSE IF sets[idx][IF won THEN 1 ELSE 2] # p
    THEN SetsLoopSequential(st, sets, p, p_old, won, idx + 1)
    ELSE LET opp == sets[idx][IF won THEN 2 ELSE 1]
             st1 == OldRatings(st, opp)
         IN SetsLoopSequential(
                AddSet(st1, p_old,
                       IF opp \in DOMAIN st1.new_ratings
                       THEN st1.new_ratings[opp] ELSE st1.old_ratings[opp],
                       IF won THEN Unit ELSE 0),
                sets, p, p_old, won, idx + 1)

\* The loop over won_sets (won, lines 172-178) or over lost_sets (lines
\* 179-185): the sets of the player in the order of `sets`, from idx on.
RECURSIVE SetsLoop(_, _, _, _, _, _)
SetsLoop(st, sets, p, p_old, won, idx) ==
    IF idx > Len(sets) THEN st
    ELSE IF sets[idx][IF won THEN 1 ELSE 2] # p
    THEN SetsLoop(st, sets, p, p_old, won, idx + 1)
    ELSE LET opp == sets[idx][IF won THEN 2 ELSE 1]
             st1 == OldRatings(st, opp)
         IN SetsLoop(AddSet(st1, p_old, st1.old_ratings[opp],
                            IF won THEN Unit ELSE 0),
                     sets, p, p_old, won, idx + 1)

\* (1 / p_old.rd ** 2 + 1 / d_squared) ** -1 after lines 186-187, as
\* rd ** 2 / (1 + rd ** 2 * Q ** 2 * d_squared).
Variance(rd, d_squared) ==
    LET q2rd2 == (rd * rd * ((Q * Q) \div 10000)) \div 10000
        ratio == (q2rd2 * (d_squared \div 100000)) \div 10000
    IN (rd * rd * 10000) \div (10000 + ratio)

\* A variant of the body of the loop without the minimum of line 191.
RatePlayerWithoutMinimum(st, sets, p) ==
    LET st0 == OldRatings(st, p)
        p_old == st0.old_ratings[p]
        st1 == SetsLoop([st0 EXCEPT !.rating_sum = 0, !.d_squared = 0],
                        sets, p, p_old, TRUE, 1)
        st2 == SetsLoop(st1, sets, p, p_old, FALSE, 1)
        variance == Variance(st2.heap[p_old].rd, st2.d_squared)
        r_change == (((variance * Q) \div 10000)
                        * (st2.rating_sum \div Unit)) \div 100000
        new_r == st2.heap[p_old].r + r_change
        new_rd == Sqrt(variance)
    IN IF st2.d_squared = 0
       THEN [st2 EXCEPT !.status = "ZeroDivisionError"]
       ELSE [st2 EXCEPT
                !.heap = Append(st2.heap, [r |-> new_r, rd |-> new_rd]),
                !.new_ratings =
                    [q \in DOMAIN st2.new_ratings \cup {p} |->
                        IF q = p THEN Len(st2.heap) + 1
                        ELSE st2.new_ratings[q]]]

\* Lines 167-192: the body of the loop for player p. The new Rating is a new
\* object; d_squared ** -1 raises when the sum is 0.
RatePlayer(st, sets, p) ==
    LET st0 == OldRatings(st, p)
        p_old == st0.old_ratings[p]
        st1 == SetsLoop([st0 EXCEPT !.rating_sum = 0, !.d_squared = 0],
                        sets, p, p_old, TRUE, 1)
        st2 == SetsLoop(st1, sets, p, p_old, FALSE, 1)
        variance == Variance(st2.heap[p_old].rd, st2.d_squared)
        r_change == (((variance * Q) \div 10000)
                        * (st2.rating_sum \div Unit)) \div 100000
        new_r == st2.heap[p_old].r + r_change
        new_rd == Max(Sqrt(variance), MINIMUM_RD)
    IN IF st2.d_squared = 0
       THEN [st2 EXCEPT !.status = "ZeroDivisionError"]
       ELSE [st2 EXCEPT
                !.heap = Append(st2.heap, [r |-> new_r, rd |-> new_rd]),
                !.new_ratings =
                    [q \in DOMAIN st2.new_ratings \cup {p} |->
                        IF q = p THEN Len(st2.heap) + 1
                        ELSE st2.new_ratings[q]]]

\* for p in players: the iteration follows `order`, a sequence of the
\* players. An error leaves the loop.
RECURSIVE PlayersLoop(_, _, _, _)
PlayersLoop(st, sets, order, idx) ==
    IF idx > Len(order) \/ st.status # "return" THEN st
    ELSE PlayersLoop(RatePlayer(st, sets, order[idx]), sets, order, idx + 1)

\* Line 165: the players of the sets.
PlayersOf(sets) == {sets[i][1] : i \in DOMAIN sets}
                       \cup {sets[i][2] : i \in DOMAIN sets}

\* update_ranking(sets, player_ratings): old_ratings shares the Rating
\* objects of player_ratings (line 161) and new_ratings those of
\* old_ratings (line 163). The result is the status, the heap after the call
\* and the dictionary returned (empty when it raises).
UpdateRanking(heap, player_ratings, sets, order) ==
    LET st == PlayersLoop([heap |-> heap, old_ratings |-> player_ratings,
                           new_ratings |-> player_ratings,
                           rating_sum |-> 0, d_squared |-> 0,
                           status |-> "return"],
                          sets, order, 1)
    IN [status |-> st.status, heap |-> st.heap,
        result |-> IF st.status = "return" THEN st.new_ratings
                   ELSE [p \in {} |-> 0]]

\* The competitors of a rating period, the ratings that a snapshot may hold
\* for them, and the bound on the matches of the period.
Competitors == 1..3
SnapshotValues == {[r |-> 1400, rd |-> 80], [r |-> BASE_R, rd |-> MINIMUM_RD]}
MaxMatches == 3

\* The matches between two competitors, as (winner, loser).
Matches == {s \in Competitors \X Competitors : s[1] # s[2]}

\* The orders in which an iteration may visit the elements of S.
OrdersOf(S) ==
    {o \in [1..Cardinality(S) -> S] :
        \A i, j \in 1..Cardinality(S) : o[i] = o[j] => i = j}

\* A call of update_ranking on a snapshot and the matches of a period. The
\* iteration order of the set of players is the interpreter's choice.
UpdateRankingCall ==
    /\ fn.op = "none"
    /\ \E values \in PartialFunctions(Competitors, SnapshotValues),
          sets \in {<<>>} \cup SeqsUpTo(Matches, MaxMatches) :
        \E order \in OrdersOf(PlayersOf(sets)) :
            LET h == HeapOf(values) IN
            fn' = [op |-> "update_ranking",
                   arg |-> [heap |-> h.heap, player_ratings |-> h.ratings,
                            sets |-> sets, order |-> order],
                   ret |-> UpdateRanking(h.heap, h.ratings, sets, order)]
    /\ UNCHANGED <<req, pc, call, session, committed, last, ncalls>>

\* The bound on the matches of a period whose result the caller goes on to
\* change.
MaxMatchesChanged == 1

\* The caller of update_ranking changes a Rating of the result in place:
\* Rating.update_deviation() with the default factor on the object that the
\* result holds for one player.
ReturnedRatingUpdateDeviation ==
    /\ fn.op = "update_ranking"
    /\ fn.ret.status = "return"
    /\ Len(fn.arg.sets) <= MaxMatchesChanged
    /\ \E player \in DOMAIN fn.ret.result :
        fn' = [op |-> "update_ranking, then Rating.update_deviation",
               arg |-> fn.arg, ret |-> fn.ret, player |-> player,
               heap |-> RatingUpdateDeviation(fn.ret.heap,
                                              fn.ret.result[player],
                                              10).heap]
    /\ UNCHANGED <<req, pc, call, session, committed, last, ncalls>>

\* The ratings that expected_outcome may be asked about.
OutcomeRatings ==
    {[r |-> r, rd |-> rd] : r \in {1300, 1400, BASE_R, 1700},
                            rd \in {MINIMUM_RD, 80, 150, BASE_RD}}

\* A call of Rating.expected_outcome, that is calculate_expected_outcome.
ExpectedOutcomeCall ==
    /\ fn.op = "none"
    /\ \E r1 \in OutcomeRatings, r2 \in OutcomeRatings :
        fn' = [op |-> "expected_outcome", arg |-> [r1 |-> r1, r2 |-> r2],
               ret |-> CalculateExpectedOutcome(r1, r2)]
    /\ UNCHANGED <<req, pc, call, session, committed, last, ncalls>>

RatingNext ==
    \/ UpdateDeviationCall
    \/ UpdateRankingCall
    \/ ReturnedRatingUpdateDeviation
    \/ ExpectedOutcomeCall

\* The rating engine has no access to the store: the calls start from the
\* empty one.
RatingInit == Init /\ session = EmptyStore

SpecRating == RatingInit /\ [][RatingNext]_vars

----------------------------------------------------------------------------
(* Properties.                                                             *)

RECURSIVE Pow2(_)
Pow2(n) == IF n <= 0 THEN 1 ELSE 2 * Pow2(n - 1)

\* An event record that passes every filter of the harvester, stated on the
\* record alone.
Eligible(evt) ==
    /\ evt.state = "COMPLETED"
    /\ ~evt.isOnline
    /\ evt.videogame = GAME_SGG_ID
    /\ ~evt.numEntrants.null
    /\ evt.numEntrants.v >= MIN_ENTRANTS

\* The number of rows of `events` that carry the key.
CountKey(events, key) ==
    Cardinality({i \in DOMAIN events : EventKey(events[i]) = key})

\* The keys that occur in the records of a trace (one entry per filter).
TraceKeys(trace) ==
    {<<trace[i][j].id, trace[i][j].events[m].id>> :
        <<i, j, m>> \in {t \in (DOMAIN trace) \X (1..MaxPages + 1) \X (1..3) :
            /\ t[2] \in DOMAIN trace[t[1]]
            /\ t[3] \in DOMAIN trace[t[1]][t[2]].events}}

\* The eligible event records with the key in the filters of the trace whose
\* tournament ids are pairwise distinct.
CandidatesOfCleanFilters(trace, key) ==
    {t \in (DOMAIN trace) \X (1..MaxPages + 1) \X (1..3) :
        /\ t[2] \in DOMAIN trace[t[1]]
        /\ t[3] \in DOMAIN trace[t[1]][t[2]].events
        /\ \A a, b \in DOMAIN trace[t[1]] :
               trace[t[1]][a].id = trace[t[1]][b].id => a = b
        /\ trace[t[1]][t[2]].id = key[1]
        /\ trace[t[1]][t[2]].events[t[3]].id = key[2]
        /\ Eligible(trace[t[1]][t[2]].events[t[3]])}

\* Some filter of the trace retrieved a tournament id more than once.
HasDuplicateFilter(trace) ==
    \E i \in DOMAIN trace : \E a, b \in DOMAIN trace[i] :
        a # b /\ trace[i][a].id = trace[i][b].id

\* C1: no two persisted Events share a (sgg_tournament_id, sgg_event_id)
\* pair, whatever the calls of fetch_events retrieved.
C1_EventsUnique ==
    \A i, j \in DOMAIN committed.events :
        EventKey(committed.events[i]) = EventKey(committed.events[j]) => i = j

\* C2: a successful fetch_events that follows a successful fetch_events with
\* the same arguments and meets the same responses returns an empty list and
\* adds no Event to the store.
C2_Idempotent ==
    (last.op = "pull" /\ last.status = "ok" /\ last.replay) =>
        /\ last.result = <<>>
        /\ committed.events = last.pre.events

C2_Witness ==
    /\ last.op = "pull" /\ last.status = "ok" /\ last.replay
    /\ \E k \in TraceKeys(last.trace) :
           /\ CandidatesOfCleanFilters(last.trace, k) # {}
           /\ CountKey(committed.events, k) > 0
           /\ k[1] = 2

\* C3: no two persisted Sets share a remote match id (sgg_id), whatever the
\* calls of populate_event retrieved.
C3_SetsUnique ==
    \A i, j \in DOMAIN committed.sets :
        committed.sets[i].sgg_id = committed.sets[j].sgg_id => i = j

\* A slot whose score is null or negative.
BadScore(slot) == slot.score.null \/ slot.score.v < 0

\* C4: a set record is a disqualification exactly when the score of at least
\* one of its slots is null or negative, and every Set that populate_event
\* stages or persists has a non-null, non-negative winning and losing score.
C4_NoDqPersisted ==
    /\ \A r \in SetRecs :
           SetDataContainsDq(r) <=> \E i \in DOMAIN r.slots : BadScore(r.slots[i])
    /\ \A i \in DOMAIN session.sets :
           /\ ~session.sets[i].winning_score.null
           /\ session.sets[i].winning_score.v >= 0
           /\ ~session.sets[i].losing_score.null
           /\ session.sets[i].losing_score.v >= 0
    /\ \A i \in DOMAIN committed.sets :
           /\ ~committed.sets[i].winning_score.null
           /\ committed.sets[i].winning_score.v >= 0
           /\ ~committed.sets[i].losing_score.null
           /\ committed.sets[i].losing_score.v >= 0

C4_Witness ==
    /\ last.op = "populate" /\ last.status = "ok"
    /\ last.dq > 0
    /\ last.result # <<>>
    /\ committed.sets # <<>>

\* C5: the retry wrapper makes at most max(max_retries, 0) + 1 attempts (6
\* with the defaults), retries only after a 429, propagates any other failure
\* at once and without a sleep, propagates a 429 on the last allowed attempt,
\* returns the response of the first successful attempt, and always ends by
\* returning or raising.
C5_RetryBounded ==
    req.op # "none" =>
        LET budget == Max(req.max_retries, 0) + 1 IN
        /\ req.status \in {"return", "raise"}
        /\ req.attempts >= 1 /\ req.attempts <= budget
        /\ Len(req.sleeps) = req.attempts - 1
        /\ req.attempts - 1 <= req.client.n429
        /\ req.status = "return" =>
               /\ req.client.final = 200
               /\ req.attempts = req.client.n429 + 1
        /\ (req.status = "raise" /\ req.code # HTTP_TOO_MANY_REQUESTS) =>
               /\ req.code = req.client.final
               /\ req.attempts = req.client.n429 + 1
        /\ (req.status = "raise" /\ req.code = HTTP_TOO_MANY_REQUESTS) =>
               /\ req.attempts = budget
               /\ req.client.n429 >= budget
        /\ req.op = "submit" => budget = 6

C5_Witness ==
    /\ req.op = "execute" /\ req.max_retries = 2
    /\ req.status = "raise" /\ req.code = HTTP_TOO_MANY_REQUESTS
    /\ req.attempts = 3 /\ Len(req.sleeps) = 2

\* C6: the sleep after the rate-limit response to attempt number k (counted
\* from 0) lasts min(initial_wait_time * 2^k, max_wait_time), so the first
\* wait is initial_wait_time (1.5 s with the defaults), and no sleep exceeds
\* max_wait_time.
C6_BackoffAsSpecified ==
    req.op # "none" =>
        \A k \in DOMAIN req.sleeps :
            /\ req.sleeps[k] =
                   Min(req.initial_wait_time * Pow2(k - 1), req.max_wait_time)
            /\ req.sleeps[k] <= req.max_wait_time

\* C7: a fetch_events or populate_event call that ends with an error leaves
\* the committed store exactly as it was when the call began, and no call
\* commits before its end.
C7_AtomicOnFailure ==
    /\ pc # "idle" => committed = call.pre
    /\ last.status = "error" => committed = last.pre

C7_Witness ==
    /\ last.op = "populate" /\ last.status = "error"
    /\ last.error = "ValueError"
    /\ Len(session.players) > Len(committed.players)
    /\ Len(session.sets) > Len(committed.sets)
    /\ session.events # committed.events

\* C8 as stated: a payload without a top-level "data" key always makes
\* submit_request raise.
C8_MissingDataAlwaysRaises ==
    (req.op = "submit" /\ req.status = "return" /\ ~req.has_data) =>
        req.outcome = "KeyError"

\* C8, amended: with include_metadata false a payload without a top-level
\* "data" key makes submit_request raise the KeyError and return nothing;
\* with include_metadata true the payload is returned as it is.
C8_MissingDataRaisesUnlessMetadata ==
    (req.op = "submit" /\ req.status = "return" /\ ~req.has_data) =>
        /\ ~req.include_metadata => req.outcome = "KeyError"
        /\ req.include_metadata => req.outcome = "raw"

C8_Witness ==
    /\ req.op = "submit" /\ req.status = "return" /\ ~req.has_data
    /\ ~req.include_metadata /\ req.outcome = "KeyError"
    /\ req.attempts = 2

\* C9: after a successful fetch_events no Event comes from a filter whose
\* pages held a tournament id more than once, and every eligible, not yet
\* known event of the other filters is persisted, once per occurrence.
C9_DuplicateGuard ==
    (last.op = "pull" /\ last.status = "ok") =>
        /\ committed.events = last.pre.events \o last.result
        /\ \A k \in {EventKey(last.result[i]) : i \in DOMAIN last.result}
                 \cup TraceKeys(last.trace) :
               CountKey(last.result, k) =
                   IF CountKey(last.pre.events, k) > 0 THEN 0
                   ELSE Cardinality(CandidatesOfCleanFilters(last.trace, k))

C9_Witness ==
    /\ last.op = "pull" /\ last.status = "ok"
    /\ HasDuplicateFilter(last.trace)
    /\ Len(last.trace) = 2
    /\ last.result # <<>>

\* C10 as stated: a fatal request failure aborts only the batch of the
\* current filter, so every fetch_events call visits all of its filters.
C10_FailureSkipsOneFilter ==
    last.op = "pull" => last.unvisited = 0

\* C10, amended: a fatal request failure while harvesting one filter ends the
\* whole fetch_events call with that error: no remaining filter is requested
\* and no Event of the call is persisted, also none found for an earlier
\* filter.
C10_FailureAbortsCall ==
    (last.op = "pull" /\ last.status = "error") =>
        /\ pc = "idle"
        /\ last.result = <<>>
        /\ committed.events = last.pre.events
        /\ session.events = last.pre.events

C10_Witness ==
    /\ last.op = "pull" /\ last.status = "error"
    /\ last.unvisited > 0

\* The set record that the remote service holds under a match id.
SetRecOf(id) == CHOOSE r \in SetRecs : r.id = id

\* The players of a store that carry the remote user id.
PlayersWithId(store, id) ==
    {i \in DOMAIN store.players :
        ~store.players[i].sgg_id.null /\ store.players[i].sgg_id.v = id}

\* The anonymous players of a store that carry the tag.
AnonymousWithTag(store, tag) ==
    {i \in DOMAIN store.players :
        store.players[i].sgg_id.null /\ store.players[i].name = tag}

\* C11: there is at most one Player per non-null remote user id, in the
\* session and in the committed store, and every participant with a user id
\* of a created Set is resolved to the Player that carries this id (the
\* stored one if there is one, otherwise one new Player).
C11_VerifiedUnique ==
    /\ \A id \in 1..2 : Cardinality(PlayersWithId(session, id)) <= 1
    /\ \A id \in 1..2 : Cardinality(PlayersWithId(committed, id)) <= 1
    /\ \A i \in DOMAIN session.sets :
           LET s == session.sets[i]
               rec == SetRecOf(s.sgg_id) IN
           \A k \in DOMAIN rec.slots :
               ~rec.slots[k].participant.user.null =>
                   \E pl \in {s.winning_player, s.losing_player} :
                       pl \in PlayersWithId(session,
                                            rec.slots[k].participant.user.v)

C11_Witness ==
    /\ last.op = "populate" /\ last.status = "ok"
    /\ PlayersWithId(last.pre, 1) = {1}
    /\ Len(last.result) = 2
    /\ \A i \in DOMAIN last.result :
           1 \in {last.result[i].winning_player, last.result[i].losing_player}
    /\ PlayersWithId(committed, 1) = {1}

\* C12: the Sets that one populate_event call creates resolve every
\* participant without a user id to an anonymous Player created by this very
\* call, never to a Player that the session held before, and the call creates
\* at most one anonymous Player per gamerTag.
C12_AnonymousScoped ==
    [][(pc = "populate" /\ pc' = "idle") =>
          LET old == Len(session.players)
              created == (Len(session.sets) + 1)..Len(session'.sets) IN
          /\ \A i \in created :
                 LET s == session'.sets[i]
                     rec == SetRecOf(s.sgg_id) IN
                 \A k \in DOMAIN rec.slots :
                     rec.slots[k].participant.user.null =>
                         \E pl \in {s.winning_player, s.losing_player} :
                             /\ pl > old
                             /\ pl \in AnonymousWithTag(
                                    session', rec.slots[k].participant.gamerTag)
          /\ \A tag \in {"a", "b"} :
                 Cardinality({pl \in AnonymousWithTag(session', tag) :
                                 pl > old}) <= 1]_vars

C12_Witness ==
    /\ last.op = "populate" /\ last.status = "ok"
    /\ AnonymousWithTag(last.pre, "b") = {2}
    /\ Len(last.result) = 2
    /\ AnonymousWithTag(committed, "b") = {2, 3}
    /\ \A i \in DOMAIN last.result :
           3 \in {last.result[i].winning_player, last.result[i].losing_player}

\* The event has at least one Set in the store.
HasSets(e, store) == \E i \in DOMAIN store.sets : store.sets[i].event = e

\* This step is the start of a populate_event call on event e.
PopulateStartsOn(e) ==
    /\ pc = "idle"
    /\ ncalls' = ncalls + 1
    /\ \/ pc' = "populate" /\ call'.op = "populate" /\ call'.event = e
       \/ pc' = "idle" /\ last'.op = "populate" /\ last'.event = e

\* This step is a call that returns an empty list at once: no request
\* follows, nothing is staged and nothing is committed.
ReturnsEmptyAtOnce ==
    /\ pc' = "idle"
    /\ call' = call
    /\ last'.status = "ok"
    /\ last'.result = <<>>
    /\ session' = session
    /\ committed' = committed
    /\ req' = req

\* C13: populate_event on an event that has at least one Set returns an empty
\* list at once: it issues no request, creates no Set and no Player, leaves
\* the format of the event as it is and commits nothing.
C13_PopulatedIsNoOp ==
    [][\A e \in DOMAIN session.events :
          (PopulateStartsOn(e) /\ HasSets(e, session)) => ReturnsEmptyAtOnce]_vars

C13_Witness ==
    /\ pc = "idle"
    /\ last.op = "populate" /\ last.status = "ok" /\ last.result = <<>>
    /\ session.events[last.event].type_code = TYPE_SINGLES
    /\ HasSets(last.event, committed)
    /\ last.sets_data = <<>>
    /\ committed = last.pre

\* C14: populate_event on an event of type DOUBLES or UNKNOWN returns an
\* empty list at once, without an error: it issues no request, creates no Set
\* and no Player and leaves the format of the event as it is; every Set in
\* the store belongs to a SINGLES event.
C14_OnlySinglesPopulated ==
    /\ [](\A i \in DOMAIN session.sets :
             session.events[session.sets[i].event].type_code = TYPE_SINGLES)
    /\ [][\A e \in DOMAIN session.events :
             (/\ PopulateStartsOn(e)
              /\ session.events[e].type_code \in {TYPE_DOUBLES, TYPE_UNKNOWN})
             => ReturnsEmptyAtOnce]_vars

C14_Witness ==
    /\ pc = "idle"
    /\ last.op = "populate" /\ last.status = "ok" /\ last.result = <<>>
    /\ session.events[last.event].type_code = TYPE_DOUBLES
    /\ ~HasSets(last.event, session)
    /\ committed = last.pre

\* The event ids of the eligible records of a tournament node, in order.
RECURSIVE EligibleIds(_)
EligibleIds(evts) ==
    IF evts = <<>> THEN <<>>
    ELSE (IF Eligible(Head(evts)) THEN <<Head(evts).id>> ELSE <<>>)
         \o EligibleIds(Tail(evts))

\* The (tournament id, event id) pairs of a list of Events, in order.
KeysOf(events) == [i \in DOMAIN events |-> EventKey(events[i])]

\* C15: the Event candidates of a tournament node are exactly its event
\* records that are COMPLETED, not online, of the requested game and of at
\* least 10 entrants, in their order: a rejected record stops neither the
\* records after it nor the next tournament.
C15_CandidateIffEligible ==
    /\ fn.op = "create_events" =>
           KeysOf(fn.ret) =
               [i \in DOMAIN EligibleIds(fn.arg.events) |->
                   <<fn.arg.id, EligibleIds(fn.arg.events)[i]>>]
    /\ (fn.op = "get_events" /\ fn.arg[1].id # fn.arg[2].id) =>
           KeysOf(fn.ret) =
               [i \in DOMAIN EligibleIds(fn.arg[1].events) |->
                   <<fn.arg[1].id, EligibleIds(fn.arg[1].events)[i]>>]
               \o [i \in DOMAIN EligibleIds(fn.arg[2].events) |->
                      <<fn.arg[2].id, EligibleIds(fn.arg[2].events)[i]>>]

C15_Witness ==
    /\ fn.op = "create_events"
    /\ Len(fn.arg.events) = 2
    /\ fn.arg.events[1] =
           EventRecord(1, "COMPLETED", FALSE, GAME_SGG_ID,
                       Some(MIN_ENTRANTS - 1), 1)
    /\ KeysOf(fn.ret) = <<<<1, 2>>>>

\* The distinct bracketType labels of a phase list.
LabelsOf(phases) == {phases[i].bracketType : i \in DOMAIN phases}

\* C17: _find_event_format returns ELIMINATION when every label of the phases
\* is one of SINGLE_ELIMINATION, DOUBLE_ELIMINATION, ROUND_ROBIN and SWISS,
\* otherwise LADDER when every label is MATCHMAKING, and UNKNOWN in every
\* other case (a mix of elimination and ladder labels, an unrecognised
\* label); the three examples of the specification come out as stated.
C17_ClassifyFormat ==
    /\ fn.op = "find_event_format" =>
           fn.ret =
               IF LabelsOf(fn.arg) \subseteq
                      {"SINGLE_ELIMINATION", "DOUBLE_ELIMINATION",
                       "ROUND_ROBIN", "SWISS"}
               THEN FORMAT_ELIMINATION
               ELSE IF LabelsOf(fn.arg) = {"MATCHMAKING"}
               THEN FORMAT_LADDER
               ELSE FORMAT_UNKNOWN
    /\ (fn.op = "find_event_format"
        /\ LabelsOf(fn.arg) = {"SINGLE_ELIMINATION", "DOUBLE_ELIMINATION"})
           => fn.ret = FORMAT_ELIMINATION
    /\ (fn.op = "find_event_format" /\ LabelsOf(fn.arg) = {"MATCHMAKING"})
           => fn.ret = FORMAT_LADDER
    /\ (fn.op = "find_event_format"
        /\ LabelsOf(fn.arg) = {"SINGLE_ELIMINATION", "MATCHMAKING"})
           => fn.ret = FORMAT_UNKNOWN

C17_Witness ==
    /\ fn.op = "find_event_format"
    /\ fn.arg = <<[id |-> 1, bracketType |-> "SINGLE_ELIMINATION"],
                  [id |-> 2, bracketType |-> "MATCHMAKING"]>>
    /\ fn.ret = FORMAT_UNKNOWN

\* The event records of a trace that carry the key.
RecordsOfKey(trace, key) ==
    {trace[t[1]][t[2]].events[t[3]] :
        t \in {u \in (DOMAIN trace) \X (1..MaxPages + 1) \X (1..3) :
                  /\ u[2] \in DOMAIN trace[u[1]]
                  /\ u[3] \in DOMAIN trace[u[1]][u[2]].events
                  /\ trace[u[1]][u[2]].id = key[1]
                  /\ trace[u[1]][u[2]].events[u[3]].id = key[2]}}

\* C16: every Event that a successful fetch_events adds is UNVERIFIED, of
\* format UNKNOWN and of the type that the fixed mapping gives to the type
\* code of its record (1 SINGLES, 5 DOUBLES, any other UNKNOWN); the store
\* after the call is the store before it followed by the returned list; and a
\* fetch_events call issues tournament requests only.
C16_NewEventsAsReturned ==
    /\ pc = "pull" =>
           call.op = "pull" /\ call.stage \in {"paging", "page"}
    /\ (last.op = "pull" /\ last.status = "ok") =>
           /\ committed.events = last.pre.events \o last.result
           /\ committed.sets = last.pre.sets
           /\ committed.players = last.pre.players
           /\ \A i \in DOMAIN last.result :
                  LET e == last.result[i] IN
                  /\ e.state_code = 0
                  /\ e.format_code = 0
                  /\ \E r \in RecordsOfKey(last.trace, EventKey(e)) :
                         e.type_code = CASE r.type = 1 -> 1
                                         [] r.type = 5 -> 2
                                         [] OTHER -> 0

C16_Witness ==
    /\ last.op = "pull" /\ last.status = "ok"
    /\ {last.result[i].type_code : i \in DOMAIN last.result} = {0, 1, 2}
    /\ Len(committed.events) = Len(last.pre.events) + Len(last.result)

\* The start time by which a Set is ordered: that of its record, null and 0
\* alike counted as 0.
StartOf(set) ==
    LET st == SetRecOf(set.sgg_id).startedAt IN IF st.null THEN 0 ELSE st.v

\* C18: the Sets created by one successful populate_event call carry the
\* order values 0, 1, ..., n-1, one each, and a Set of smaller order did not
\* start later than a Set of larger order, whatever phase or page their
\* records came from.
C18_OrderFollowsStart ==
    (last.op = "populate" /\ last.status = "ok") =>
        /\ \A i \in DOMAIN last.result : last.result[i].order = i - 1
        /\ \A i, j \in DOMAIN last.result :
               last.result[i].order < last.result[j].order =>
                   StartOf(last.result[i]) <= StartOf(last.result[j])

C18_Witness ==
    /\ last.op = "populate" /\ last.status = "ok"
    /\ Len(last.sets_data) = 2
    /\ last.sets_data[1].id = 1 /\ last.sets_data[2].id = 2
    /\ Len(last.result) = 2
    /\ last.result[1].sgg_id = 2 /\ last.result[1].order = 0
    /\ last.result[2].sgg_id = 1 /\ last.result[2].order = 1

\* The step ends the current filter of the call: right after the summary
\* request (no page, no record), or after the request of page totalPages
\* (one record per page).
FilterEnds(trace) ==
    \/ call.stage = "paging" /\ trace[call.ci] = <<>>
    \/ /\ call.stage = "page"
       /\ call.page_nr = call.totalPages
       /\ Len(trace[call.ci]) = call.totalPages

\* C19: a fetch_events call visits its filters in order; for each filter it
\* issues the summary request first and then the requests of the pages 1, 2,
\* ..., totalPages, one each in ascending order, and none when there is no
\* page; an empty country list makes one pass without a filter.
C19_PagesAscending ==
    /\ [](CountriesOrNone(<<>>) = <<"None">>)
    /\ [](pc = "pull" =>
             /\ call.ci \in 1..Len(call.countries)
             /\ call.stage = "paging" => call.page_nr = 0
             /\ call.stage = "page" => call.page_nr \in 1..call.totalPages)
    /\ [][/\ (pc = "idle" /\ pc' = "pull") =>
                /\ call'.ci = 1 /\ call'.stage = "paging"
                /\ call'.trace = <<>>
                /\ call'.countries \in {<<"None">>} \cup (CountryLists \ {<<>>})
          /\ (pc = "pull" /\ pc' = "pull") =>
                /\ call'.countries = call.countries
                /\ \/ /\ call.stage = "paging" /\ call'.stage = "page"
                      /\ call'.page_nr = 1 /\ call'.totalPages >= 1
                      /\ call'.ci = call.ci /\ call'.trace = call.trace
                   \/ /\ call.stage = "page" /\ call'.stage = "page"
                      /\ call.page_nr < call.totalPages
                      /\ call'.page_nr = call.page_nr + 1
                      /\ call'.totalPages = call.totalPages
                      /\ call'.ci = call.ci /\ call'.trace = call.trace
                   \/ /\ call'.stage = "paging"
                      /\ call'.ci = call.ci + 1
                      /\ Len(call'.trace) = call.ci
                      /\ FilterEnds(call'.trace)
          /\ (pc = "pull" /\ pc' = "idle" /\ last'.status = "ok") =>
                /\ call.ci = Len(call.countries)
                /\ Len(last'.trace) = Len(call.countries)
                /\ FilterEnds(last'.trace)]_vars

C19_Witness ==
    /\ pc = "pull"
    /\ Len(call.countries) = 2 /\ call.ci = 2
    /\ call.stage = "page" /\ call.page_nr = 2 /\ call.totalPages = 2
    /\ Len(call.trace) = 1 /\ Len(call.trace[1]) = 2
    /\ Len(call.tournament_dicts) = 1

\* C20: update_deviation raises ValueError whenever a factor of
\* deviation_factors lies outside [0, 1], whoever the factor belongs to; when
\* it raises it returns nothing; and the Rating objects of player_ratings are
\* the same after the call as before.
C20_InvalidFactorRejected ==
    fn.op = "update_deviation" =>
        /\ (\E p \in DOMAIN fn.arg.deviation_factors :
               \/ fn.arg.deviation_factors[p] < 0
               \/ fn.arg.deviation_factors[p] > 10)
           => fn.ret.status = "ValueError"
        /\ fn.ret.status = "ValueError" => DOMAIN fn.ret.result = {}
        /\ \A a \in DOMAIN fn.arg.heap : fn.ret.heap[a] = fn.arg.heap[a]

\* The rating that the returned dictionary holds for p, and the rating that
\* the dictionary passed to the call held for p when the call began.
ResultValue(p) == fn.ret.heap[fn.ret.result[p]]
PriorValue(p) == fn.arg.heap[fn.arg.player_ratings[p]]

\* The call of the rating engine named op has returned.
Returned(op) == fn.op = op /\ fn.ret.status = "return"

\* C21: every rating of the dictionary returned by update_deviation and of
\* the dictionary returned by update_ranking has a deviation between
\* MINIMUM_RD and BASE_RD, also for a competitor without a match in the
\* period and for a new entrant.
C21_RatingBounds ==
    (Returned("update_deviation") \/ Returned("update_ranking")) =>
        \A p \in DOMAIN fn.ret.result :
            MINIMUM_RD <= ResultValue(p).rd /\ ResultValue(p).rd <= BASE_RD

\* An update that rated a new entrant and a competitor whose deviation was
\* the minimum already, and left a competitor without a match.
C21_Witness ==
    /\ Returned("update_ranking")
    /\ \E p \in PlayersOf(fn.arg.sets) : p \notin DOMAIN fn.arg.player_ratings
    /\ \E p \in PlayersOf(fn.arg.sets) \cap DOMAIN fn.arg.player_ratings :
           PriorValue(p).rd = MINIMUM_RD
    /\ \E p \in DOMAIN fn.arg.player_ratings : p \notin PlayersOf(fn.arg.sets)

\* C22: update_ranking returns a dictionary that is independent of its
\* input: the call changes no Rating of player_ratings, no Rating object of
\* the result is an object of player_ratings, and a later change of a
\* returned Rating in place changes no Rating of player_ratings.
C22_IndependentOfInput ==
    /\ Returned("update_ranking") =>
           /\ \A a \in DOMAIN fn.arg.heap : fn.ret.heap[a] = fn.arg.heap[a]
           /\ \A p \in DOMAIN fn.ret.result, q \in DOMAIN fn.arg.player_ratings :
                  fn.ret.result[p] # fn.arg.player_ratings[q]
    /\ fn.op = "update_ranking, then Rating.update_deviation" =>
           \A a \in DOMAIN fn.arg.heap : fn.heap[a] = fn.arg.heap[a]

\* The ratings that a returned dictionary holds, by player.
ValuesOf(u) == [p \in DOMAIN u.result |-> u.heap[u.result[p]]]

\* The rating of p when p alone is rated, from the snapshot as passed in.
RatedFromSnapshot(p) ==
    ValuesOf(UpdateRanking(fn.arg.heap, fn.arg.player_ratings, fn.arg.sets,
                           <<p>>))[p]

\* The permutations of a sequence.
PermutationsOf(seq) ==
    {[i \in DOMAIN seq |-> seq[o[i]]] : o \in OrdersOf(DOMAIN seq)}

\* The sets that p won and the sets that p lost, in the order of the sets.
WonSets(sets, p) == SelectSeq(sets, LAMBDA s : s[1] = p)
LostSets(sets, p) == SelectSeq(sets, LAMBDA s : s[2] = p)

\* Two sequences of sets list the wins of every competitor in the same
\* order, and the losses of every competitor in the same order.
SameOwnOrder(sets1, sets2) ==
    \A p \in Competitors :
        /\ WonSets(sets1, p) = WonSets(sets2, p)
        /\ LostSets(sets1, p) = LostSets(sets2, p)

\* The ratings returned for the matches in another order.
ValuesFor(sets) ==
    ValuesOf(UpdateRanking(fn.arg.heap, fn.arg.player_ratings, sets,
                           fn.arg.order))

RECURSIVE WithEntrants(_, _, _)
WithEntrants(heap, player_ratings, todo) ==
    IF todo = {} THEN [heap |-> heap, ratings |-> player_ratings]
    ELSE LET p == CHOOSE q \in todo : TRUE
         IN WithEntrants(Append(heap, [r |-> BASE_R, rd |-> BASE_RD]),
                         [q \in DOMAIN player_ratings \cup {p} |->
                             IF q = p THEN Len(heap) + 1
                             ELSE player_ratings[q]],
                         todo \ {p})

\* C24: in the result of update_ranking every competitor of player_ratings
\* without a match has the (r, rd) it had, the keys are those of
\* player_ratings together with the winners and losers of the matches, and a
\* competitor that player_ratings does not hold is rated as one that it holds
\* at (BASE_R, BASE_RD).
C24_KeysAndNonPlayers ==
    Returned("update_ranking") =>
        /\ DOMAIN fn.ret.result
               = DOMAIN fn.arg.player_ratings \cup PlayersOf(fn.arg.sets)
        /\ \A p \in DOMAIN fn.arg.player_ratings \ PlayersOf(fn.arg.sets) :
               ResultValue(p) = PriorValue(p)
        /\ LET w == WithEntrants(fn.arg.heap, fn.arg.player_ratings,
                                 PlayersOf(fn.arg.sets)
                                     \ DOMAIN fn.arg.player_ratings)
           IN ValuesOf(fn.ret)
                  = ValuesOf(UpdateRanking(w.heap, w.ratings, fn.arg.sets,
                                           fn.arg.order))

\* An update of a period in which a rated competitor met a new entrant,
\* while another rated competitor had no match.
C24_Witness ==
    /\ Returned("update_ranking")
    /\ \E k \in DOMAIN fn.arg.sets :
           /\ fn.arg.sets[k][1] \in DOMAIN fn.arg.player_ratings
           /\ fn.arg.sets[k][2] \notin DOMAIN fn.arg.player_ratings
    /\ \E p \in DOMAIN fn.arg.player_ratings : p \notin PlayersOf(fn.arg.sets)

\* The factor that update_deviation applies to p: 1.0 when none is given.
FactorOf(p) ==
    IF p \in DOMAIN fn.arg.deviation_factors
    THEN fn.arg.deviation_factors[p] ELSE 10

\* C25: update_deviation leaves the deviation of a competitor with factor 0
\* as it was, raises the deviation of a competitor with factor 1, given or
\* by default, strictly unless it was BASE_RD already, and never changes r.
C25_MonotonicDecay ==
    Returned("update_deviation") =>
        \A p \in DOMAIN fn.ret.result :
            /\ ResultValue(p).r = PriorValue(p).r
            /\ FactorOf(p) = 0 => ResultValue(p).rd = PriorValue(p).rd
            /\ FactorOf(p) = 10 =>
                   \/ ResultValue(p).rd > PriorValue(p).rd
                   \/ /\ PriorValue(p).rd = BASE_RD
                      /\ ResultValue(p).rd = BASE_RD

\* A decay of a competitor with factor 0 and of a competitor below BASE_RD
\* for whom no factor is given.
C25_Witness ==
    /\ Returned("update_deviation")
    /\ \E p \in DOMAIN fn.ret.result :
           p \in DOMAIN fn.arg.deviation_factors /\ FactorOf(p) = 0
    /\ \E p \in DOMAIN fn.ret.result :
           /\ p \notin DOMAIN fn.arg.deviation_factors
           /\ PriorValue(p).rd < BASE_RD

\* The step ends a populate_event call that returns the Sets it created.
PopulateCreatesSets ==
    /\ pc = "populate" /\ pc' = "idle"
    /\ last'.op = "populate" /\ last'.status = "ok"
    /\ last'.result # <<>>

\* C26: a populate_event call that creates Sets sets the format of the event
\* to the classification of the retrieved phases and changes the
\* verification state of the event, and the commit that persists the Sets
\* persists both changes.
C26_FormatAndStateUpdated ==
    [][PopulateCreatesSets =>
          /\ committed'.events[call.event].format_code
                 = FindEventFormat(call.phases_data)
          /\ committed'.events[call.event].state_code
                 # call.pre.events[call.event].state_code
          /\ \A i \in DOMAIN last'.result :
                 \E j \in DOMAIN committed'.sets :
                     committed'.sets[j] = last'.result[i]]_vars

CallSucceeds == pc # "idle" /\ pc' = "idle" /\ last'.status = "ok"

\* C28: what a successful call commits beyond the store it found is what
\* this call made: the Events that fetch_events returns, or the Sets that
\* populate_event returns with their players and the format of its event.
\* Nothing that an earlier, failed call left in the session is persisted.
C28_NoResidueCommitted ==
    [][CallSucceeds =>
          /\ Len(committed'.events)
                 = Len(call.pre.events)
                       + (IF last'.op = "pull" THEN Len(last'.result) ELSE 0)
          /\ Len(committed'.sets)
                 = Len(call.pre.sets)
                       + (IF last'.op = "populate" THEN Len(last'.result)
                          ELSE 0)
          /\ \A i \in DOMAIN call.pre.events :
                 (last'.op = "populate" /\ i = last'.event)
                     \/ committed'.events[i] = call.pre.events[i]
          /\ \A i \in DOMAIN committed'.players :
                 \/ i \in DOMAIN call.pre.players
                 \/ /\ last'.op = "populate"
                    /\ \E k \in DOMAIN last'.result :
                           i \in {last'.result[k].winning_player,
                                  last'.result[k].losing_player}]_vars

\* The player is the one that stands for the participant: the player with
\* the user id of the participant, or an anonymous one with its tag.
PlayerIsOf(player, participant) ==
    IF participant.user.null
    THEN player.sgg_id.null /\ player.name = participant.gamerTag
    ELSE player.sgg_id = participant.user

\* The Set takes its winner with score and verification from slot w of the
\* set record and its loser from slot l.
TakenFrom(set, w, l) ==
    /\ PlayerIsOf(session.players[set.winning_player], w.participant)
    /\ set.winning_score = w.score
    /\ set.winning_player_is_verified = w.participant.verified
    /\ PlayerIsOf(session.players[set.losing_player], l.participant)
    /\ set.losing_score = l.score
    /\ set.losing_player_is_verified = l.participant.verified

\* C29: every Set that populate_event creates has as winner the participant
\* of the slot with the smaller placement and as loser the participant of
\* the other slot, the slot listed first winning when the placements are
\* equal; the scores and the verification flags come from the slot of the
\* respective player, and the Set belongs to the event of the call.
C29_WinnerByPlacement ==
    (last.op = "populate" /\ last.status = "ok") =>
        \A i \in DOMAIN last.result :
            LET set == last.result[i]
                slots == SetRecOf(set.sgg_id).slots
            IN /\ set.event = last.event
               /\ IF slots[2].placement < slots[1].placement
                  THEN TakenFrom(set, slots[2], slots[1])
                  ELSE TakenFrom(set, slots[1], slots[2])

\* A populate_event that created the Set of a record that lists its winner
\* last and the Set of a record with equal placements.
C29_Witness ==
    /\ last.op = "populate" /\ last.status = "ok"
    /\ \E i, j \in DOMAIN last.result :
           last.result[i].sgg_id = 2 /\ last.result[j].sgg_id = 6

\* A populate_event that retrieved an empty list of phases returns.
PopulateOfNoPhases ==
    /\ pc = "populate" /\ pc' = "idle"
    /\ last'.status = "ok" /\ last'.phases = <<>>

\* C30: an empty list of phases is classified as ELIMINATION, so a
\* populate_event of an event without phases stores the format ELIMINATION
\* for the event and creates no Set.
C30_NoPhasesIsElimination ==
    [][PopulateOfNoPhases =>
          /\ FindEventFormat(<<>>) = FORMAT_ELIMINATION
          /\ session'.events[call.event].format_code = FORMAT_ELIMINATION
          /\ committed'.events[call.event].format_code = FORMAT_ELIMINATION
          /\ last'.result = <<>>
          /\ session'.sets = session.sets
          /\ committed'.sets = committed.sets]_vars

\* A populate_event of an event of unknown format that retrieved no phase:
\* the stored format is now ELIMINATION, without any Set of the event.
C30_Witness ==
    /\ last.op = "populate" /\ last.status = "ok" /\ last.phases = <<>>
    /\ last.pre.events[last.event].format_code = FORMAT_UNKNOWN
    /\ committed.events[last.event].format_code = FORMAT_ELIMINATION
    /\ last.result = <<>>
    /\ ~IsPopulated(last.event, committed)

====
